---- MODULE Spec2Model ----
(***************************************************************************)
(* Model of the specdrift comparison pipeline:                             *)
(*   Parser -> Normalizer -> Differ (Classifier / Rules) -> DiffService.   *)
(*                                                                         *)
(* Representation of the Python values.                                    *)
(*   - a dict is a sequence of <<key, value>> pairs with distinct keys, in *)
(*     insertion order (Python dicts iterate in insertion order);          *)
(*   - None as a string-valued field is NONE;                              *)
(*   - a raw text is a record saying which decoders accept it, whether it  *)
(*     begins with '{' once stripped, and the value tree it denotes.       *)
(***************************************************************************)
EXTENDS Integers, Sequences, FiniteSets, TLC

VARIABLES
    old_content,   \* compare_specs argument
    new_content,   \* compare_specs argument
    old_format,    \* compare_specs argument, rebound by detection
    new_format,    \* compare_specs argument, rebound by detection
    pc,            \* position of the compare_specs call
    old_spec,      \* local of compare_specs: Parser.parse(old_content, ...)
    new_spec,      \* local of compare_specs: Parser.parse(new_content, ...)
    differ,        \* the Differ of this call: its accumulator and normalized paths
    differ_runs,   \* number of Differ.diff invocations of this call
    outcome,       \* what compare_specs returned or raised
    call_args,     \* the format arguments the caller passed (NOT_GIVEN: none)
    last_call,     \* the last direct Classifier call and the Change it returned
    calls,         \* concurrent compare_specs calls: the frame (arguments, locals) of each
    heap           \* the Differ objects the concurrent calls have constructed

vars == <<old_content, new_content, old_format, new_format, pc, old_spec,
          new_spec, differ, differ_runs, outcome, call_args, last_call,
          calls, heap>>

compare_vars == <<old_content, new_content, old_format, new_format, pc,
                  old_spec, new_spec, differ, differ_runs, outcome, call_args,
                  calls, heap>>

NONE == "<None>"

(***************************************************************************)
(* Bounds of the explored inputs.                                          *)
(***************************************************************************)
MaxPaths == 2      \* paths per document in the endpoint-level inputs
MaxMethods == 2    \* path-item keys per path item in the method-level inputs
MaxCalls == 2      \* compare_specs calls running concurrently

(***************************************************************************)
(* Python dict helpers over sequences of <<key, value>> pairs.             *)
(***************************************************************************)
dict_keys(d) == { d[i][1] : i \in 1..Len(d) }

dict_has(d, k) == \E i \in 1..Len(d) : d[i][1] = k

dict_get(d, k) == d[CHOOSE i \in 1..Len(d) : d[i][1] = k][2]

\* d[k] = v: an existing key keeps its position and takes the new value,
\* a new key goes last.
dict_set(d, k, v) ==
    IF dict_has(d, k)
    THEN [i \in 1..Len(d) |-> IF d[i][1] = k THEN <<k, v>> ELSE d[i]]
    ELSE Append(d, <<k, v>>)

RECURSIVE flatten(_)
flatten(ss) == IF ss = <<>> THEN <<>> ELSE Head(ss) \o flatten(Tail(ss))

(***************************************************************************)
(* str.lower() and str.upper() on the keys that occur in the inputs.       *)
(***************************************************************************)
str_lower(k) ==
    CASE k = "GET" -> "get"
      [] k = "Get" -> "get"
      [] k = "POST" -> "post"
      [] k = "PUT" -> "put"
      [] k = "DELETE" -> "delete"
      [] k = "PATCH" -> "patch"
      [] k = "OPTIONS" -> "options"
      [] k = "HEAD" -> "head"
      [] k = "JSON" -> "json"
      [] k = "YAML" -> "yaml"
      [] OTHER -> k

str_upper(k) ==
    CASE k = "get" -> "GET"
      [] k = "Get" -> "GET"
      [] k = "post" -> "POST"
      [] k = "put" -> "PUT"
      [] k = "delete" -> "DELETE"
      [] k = "patch" -> "PATCH"
      [] k = "options" -> "OPTIONS"
      [] k = "head" -> "HEAD"
      [] OTHER -> k

HTTP_METHODS == {"get", "post", "put", "delete", "patch", "options", "head"}

(***************************************************************************)
(* Value trees.                                                            *)
(*   top-level key state: "absent" (no key), "null", "empty" ("" or {}),   *)
(*   "value" (a non-empty string or mapping).  `paths` is "absent",        *)
(*   "null", "empty" ({}), "emptystr" (""), "text" (a non-empty string)    *)
(*   or "map" (a non-empty mapping).                                       *)
(***************************************************************************)
KeyStates == {"absent", "null", "empty", "value"}

PathsStates == {"absent", "null", "empty", "emptystr", "text", "map"}

truthy(state) == state \in {"value", "text", "map"}

NoSchema == [present |-> FALSE, props |-> <<>>, required |-> {}]

NoBody == [key |-> FALSE, required |-> FALSE, content |-> <<>>]

NoParams == [key |-> FALSE, list |-> <<>>]

EmptyOp == [parameters |-> NoParams, requestBody |-> NoBody, responses |-> <<>>]

NoDoc ==
    [openapi |-> "absent", swagger |-> "absent", info |-> "absent",
     pathsT |-> "absent", paths |-> <<>>]

(***************************************************************************)
(* Raw texts.  syntax is the class of a text by what the two decoders do   *)
(* with it (json.loads / yaml.safe_load):                                  *)
(*   "empty"       the empty text: JSONDecodeError / None                  *)
(*   "blank"       spaces and line breaks only: JSONDecodeError / None     *)
(*   "blank_tab"   whitespace holding a tab: JSONDecodeError / YAMLError   *)
(*   "json"        JSON that is also YAML: decoded / decoded               *)
(*   "json_tab"    JSON with a tab between tokens: decoded / YAMLError     *)
(*   "yaml"        YAML that is not JSON: JSONDecodeError / decoded        *)
(*   "neither"     JSONDecodeError / YAMLError                             *)
(*   "yaml_value"  as `a: 2001-13-45`: JSONDecodeError / ValueError        *)
(*   "json_value"  as a number of 5000 digits: ValueError / ValueError     *)
(* brace: the stripped text begins with '{'.  top: the kind of the decoded *)
(* top-level value.  doc: the decoded mapping.                             *)
(***************************************************************************)
decoded(content) ==
    [ok |-> TRUE, error |-> NONE, top |-> content.top, doc |-> content.doc]

decoder_raises(error) ==
    [ok |-> FALSE, error |-> error, top |-> "scalar", doc |-> NoDoc]

json_loads(content) ==
    IF content.syntax \in {"json", "json_tab"} THEN decoded(content)
    ELSE IF content.syntax = "json_value" THEN decoder_raises("ValueError")
    ELSE decoder_raises("JSONDecodeError")

yaml_safe_load(content) ==
    IF content.syntax \in {"json", "yaml"} THEN decoded(content)
    ELSE IF content.syntax \in {"empty", "blank"}
    THEN [ok |-> TRUE, error |-> NONE, top |-> "scalar", doc |-> NoDoc]
    ELSE IF content.syntax \in {"yaml_value", "json_value"}
    THEN decoder_raises("ValueError")
    ELSE decoder_raises("YAMLError")

(***************************************************************************)
(* Parser                                                                  *)
(***************************************************************************)
MSG_EMPTY == "Specification is empty"
MSG_JSON == "Invalid JSON"
MSG_YAML == "Invalid YAML"
MSG_FAILED == "Failed to parse specification: Unsupported file type"
MSG_FAILED_DECODER == "Failed to parse specification: decoder error"
MSG_NOT_OBJECT == "Specification must be a JSON object"
MSG_VERSION == "Specification must include 'openapi' (v3.x) or 'swagger' (v2.0) field"
MSG_INFO == "Specification must include 'info' field"
MSG_PATHS == "Specification must include 'paths' field"

parse_error(msg) == [ok |-> FALSE, reason |-> msg, doc |-> NoDoc]

\* Parser._validate_spec: the reason it raises, NONE when it returns
validate_spec_swapped(spec) ==
    IF ~truthy(spec.openapi) /\ ~truthy(spec.swagger) THEN MSG_VERSION
    ELSE IF ~truthy(spec.pathsT) THEN MSG_PATHS
    ELSE IF ~truthy(spec.info) THEN MSG_INFO
    ELSE NONE

validate_spec(spec) ==
    IF ~truthy(spec.openapi) /\ ~truthy(spec.swagger) THEN MSG_VERSION
    ELSE IF ~truthy(spec.info) THEN MSG_INFO
    ELSE IF ~truthy(spec.pathsT) THEN MSG_PATHS
    ELSE NONE

\* the three handlers of the try block of Parser.parse, in their order
except_reason(error) ==
    IF error = "JSONDecodeError" THEN MSG_JSON
    ELSE IF error = "YAMLError" THEN MSG_YAML
    ELSE MSG_FAILED_DECODER

\* the try block of Parser.parse: the decoder chosen by file_type.lower()
decode(content, file_type) ==
    IF str_lower(file_type) = "json"
    THEN LET r == json_loads(content)
         IN  [ok |-> r.ok, reason |-> IF r.ok THEN NONE ELSE except_reason(r.error),
              top |-> r.top, doc |-> r.doc]
    ELSE IF str_lower(file_type) \in {"yaml", "yml"}
    THEN LET r == yaml_safe_load(content)
         IN  [ok |-> r.ok, reason |-> IF r.ok THEN NONE ELSE except_reason(r.error),
              top |-> r.top, doc |-> r.doc]
    ELSE [ok |-> FALSE, reason |-> MSG_FAILED, top |-> "scalar", doc |-> NoDoc]

\* `not content or not content.strip()`
is_blank(content) == content.syntax \in {"empty", "blank", "blank_tab"}

parse(content, file_type) ==
    IF is_blank(content) THEN parse_error(MSG_EMPTY)
    ELSE LET d == decode(content, file_type)
         IN  IF ~d.ok THEN parse_error(d.reason)
             ELSE IF d.top # "mapping" THEN parse_error(MSG_NOT_OBJECT)
             ELSE IF validate_spec(d.doc) # NONE
             THEN parse_error(validate_spec(d.doc))
             ELSE [ok |-> TRUE, reason |-> NONE, doc |-> d.doc]

detect_format(content) == IF content.brace THEN "json" ELSE "yaml"

(***************************************************************************)
(* Normalizer                                                              *)
(***************************************************************************)
\* the inner loop of _normalize_paths_*: keys whose lower-case form is an
\* HTTP method are stored under the lower-case key, whatever their value
RECURSIVE normalize_path_item(_, _)
normalize_path_item(entries, acc) ==
    IF entries = <<>> THEN acc
    ELSE LET e == Head(entries)
         IN  normalize_path_item(
                 Tail(entries),
                 IF str_lower(e[1]) \in HTTP_METHODS
                 THEN dict_set(acc, str_lower(e[1]), e[2])
                 ELSE acc)

\* a normalized path item is a dict
normalize_paths(paths) ==
    [i \in 1..Len(paths) |->
        <<paths[i][1],
          [rec |-> TRUE,
           entries |-> normalize_path_item(paths[i][2].entries, <<>>)]>>]

\* paths.items() raises AttributeError when `paths` is not a dict (None or a
\* string; an absent key defaults to {}), path_item.items() when a path item
\* is not a dict
normalize_paths_raises(spec) ==
    \/ spec.pathsT \in {"null", "emptystr", "text"}
    \/ \E i \in 1..Len(spec.paths) : ~spec.paths[i][2].rec

\* the state of a `paths` value that is a dict
dict_state(paths) == IF paths = <<>> THEN "empty" ELSE "map"

\* Normalizer.normalize: a document with neither key is returned as it is
normalize(spec) ==
    IF spec.swagger # "absent"
    THEN [version |-> spec.swagger, dialect |-> "swagger2",
          pathsT |-> dict_state(normalize_paths(spec.paths)),
          paths |-> normalize_paths(spec.paths)]
    ELSE IF spec.openapi # "absent"
    THEN [version |-> spec.openapi, dialect |-> "openapi3",
          pathsT |-> dict_state(normalize_paths(spec.paths)),
          paths |-> normalize_paths(spec.paths)]
    ELSE [version |-> "absent", dialect |-> "unknown",
          pathsT |-> spec.pathsT, paths |-> spec.paths]

normalize_raises(spec) ==
    /\ spec.swagger # "absent" \/ spec.openapi # "absent"
    /\ normalize_paths_raises(spec)

(***************************************************************************)
(* Rules                                                                   *)
(***************************************************************************)
BREAKING_RULES ==
    << <<"endpoint_removed", "Endpoint removed">>,
       <<"method_removed", "HTTP method removed">>,
       <<"required_parameter_added", "Required request parameter added">>,
       <<"parameter_removed", "Parameter removed">>,
       <<"parameter_type_changed", "Parameter type changed">>,
       <<"required_field_added", "Required request body field added">>,
       <<"field_removed", "Request/response field removed">>,
       <<"field_type_changed", "Field type changed">>,
       <<"enum_value_removed", "Enum value removed">>,
       <<"success_response_removed", "Success response (2xx) removed">> >>

POTENTIALLY_BREAKING_RULES ==
    << <<"non_2xx_response_removed", "Non-2xx response removed">>,
       <<"enum_value_added", "Enum value added">>,
       <<"default_value_removed", "Default value removed">> >>

NON_BREAKING_RULES ==
    << <<"endpoint_added", "New endpoint">>,
       <<"method_added", "New HTTP method">>,
       <<"optional_parameter_added", "New optional parameter">>,
       <<"optional_field_added", "New optional request field">>,
       <<"response_field_added", "New response field">>,
       <<"metadata_changed", "Metadata-only changes">> >>

classify_change_optimistic(rule_type) ==
    IF dict_has(BREAKING_RULES, rule_type) THEN "breaking"
    ELSE IF dict_has(POTENTIALLY_BREAKING_RULES, rule_type) THEN "potentially_breaking"
    ELSE "non_breaking"

classify_change(rule_type) ==
    IF dict_has(BREAKING_RULES, rule_type) THEN "breaking"
    ELSE IF dict_has(POTENTIALLY_BREAKING_RULES, rule_type) THEN "potentially_breaking"
    ELSE IF dict_has(NON_BREAKING_RULES, rule_type) THEN "non_breaking"
    ELSE "potentially_breaking"

get_rule_message(rule_type) ==
    IF dict_has(BREAKING_RULES, rule_type)
    THEN dict_get(BREAKING_RULES, rule_type)
    ELSE IF dict_has(POTENTIALLY_BREAKING_RULES, rule_type)
    THEN dict_get(POTENTIALLY_BREAKING_RULES, rule_type)
    ELSE IF dict_has(NON_BREAKING_RULES, rule_type)
    THEN dict_get(NON_BREAKING_RULES, rule_type)
    ELSE "Unknown change"

(***************************************************************************)
(* Change and Classifier                                                   *)
(***************************************************************************)
Change(type, category, path, method, field, message) ==
    [type |-> type, category |-> category, path |-> path, method |-> method,
     field |-> field, message |-> message]

classify_endpoint_removal(path) ==
    Change("breaking", "endpoint", path, NONE, NONE,
           get_rule_message("endpoint_removed"))

classify_endpoint_addition(path) ==
    Change("non_breaking", "endpoint", path, NONE, NONE,
           get_rule_message("endpoint_added"))

classify_method_removal(path, method) ==
    Change("breaking", "method", path, str_upper(method), NONE,
           get_rule_message("method_removed"))

classify_method_addition_breaking(path, method) ==
    Change("breaking", "method", path, str_upper(method), NONE,
           get_rule_message("method_added"))

classify_method_addition(path, method) ==
    Change("non_breaking", "method", path, str_upper(method), NONE,
           get_rule_message("method_added"))

classify_parameter_change_lenient(path, method, param_name, change_type, is_required) ==
    IF change_type = "removed"
    THEN Change("breaking", "parameter", path, str_upper(method), param_name,
                get_rule_message("parameter_removed"))
    ELSE IF change_type = "added"
    THEN Change("non_breaking", "parameter", path, str_upper(method), param_name,
                get_rule_message("optional_parameter_added"))
    ELSE IF change_type = "type_changed"
    THEN Change("breaking", "parameter", path, str_upper(method), param_name,
                get_rule_message("parameter_type_changed"))
    ELSE Change("potentially_breaking", "parameter", path, str_upper(method),
                param_name, "Parameter changed")

classify_parameter_change(path, method, param_name, change_type, is_required) ==
    IF change_type = "removed"
    THEN Change("breaking", "parameter", path, str_upper(method), param_name,
                get_rule_message("parameter_removed"))
    ELSE IF change_type = "added"
    THEN IF is_required
         THEN Change("breaking", "parameter", path, str_upper(method), param_name,
                     get_rule_message("required_parameter_added"))
         ELSE Change("non_breaking", "parameter", path, str_upper(method), param_name,
                     get_rule_message("optional_parameter_added"))
    ELSE IF change_type = "type_changed"
    THEN Change("breaking", "parameter", path, str_upper(method), param_name,
                get_rule_message("parameter_type_changed"))
    ELSE Change("potentially_breaking", "parameter", path, str_upper(method),
                param_name, "Parameter changed")

classify_schema_change(path, method, field_name, change_type, is_required) ==
    IF change_type = "removed"
    THEN Change("breaking", "schema", path, str_upper(method), field_name,
                get_rule_message("field_removed"))
    ELSE IF change_type = "added"
    THEN IF is_required
         THEN Change("breaking", "schema", path, str_upper(method), field_name,
                     get_rule_message("required_field_added"))
         ELSE Change("non_breaking", "schema", path, str_upper(method), field_name,
                     get_rule_message("optional_field_added"))
    ELSE IF change_type = "type_changed"
    THEN Change("breaking", "schema", path, str_upper(method), field_name,
                get_rule_message("field_type_changed"))
    ELSE Change("potentially_breaking", "schema", path, str_upper(method),
                field_name, "Field changed")

\* A response status key is [kind |-> "str" | "int", text |-> its digits or word]:
\* a YAML key written 200 decodes to an int, a JSON key is always a str.
\* str.startswith("2") on the status texts that occur in the inputs
starts_with_2(text) == text \in {"200", "201", "204", "2XX", "2"}

\* status_code.startswith raises AttributeError on an int
classify_response_change_raises(status_code, change_type) ==
    change_type = "removed" /\ status_code.kind # "str"

classify_response_change(path, method, status_code, change_type) ==
    IF change_type = "removed"
    THEN IF starts_with_2(status_code.text)
         THEN Change("breaking", "response", path, str_upper(method),
                     "Response " \o status_code.text,
                     get_rule_message("success_response_removed"))
         ELSE Change("potentially_breaking", "response", path, str_upper(method),
                     "Response " \o status_code.text,
                     get_rule_message("non_2xx_response_removed"))
    ELSE IF change_type = "added"
    THEN Change("non_breaking", "response", path, str_upper(method),
                "Response " \o status_code.text, "New response status")
    ELSE Change("potentially_breaking", "response", path, str_upper(method),
                "Response " \o status_code.text, "Response changed")

(***************************************************************************)
(* Normalizer.extract_parameters / extract_responses                       *)
(*   a parameter is [param_in, name, required, schema, type]: param_in,    *)
(*   name and type are NONE when the key is missing; schema is the dict    *)
(*   under "schema" as key/value pairs, <<>> when missing or empty.        *)
(***************************************************************************)
PARAM_LOCATIONS == {"query", "path", "header", "body"}

param_kept(p) == p.param_in \notin {NONE, ""} /\ p.name \notin {NONE, ""}

\* params[param_in][param_name] = {"required": ..., "schema" | "type": ...}
param_info(p, is_openapi3) ==
    IF is_openapi3
    THEN [required |-> p.required, has_schema |-> TRUE, schema |-> p.schema,
          has_type |-> FALSE, type |-> NONE]
    ELSE [required |-> p.required, has_schema |-> FALSE, schema |-> <<>>,
          has_type |-> TRUE, type |-> p.type]

RECURSIVE params_at(_, _, _, _)
params_at(list, location, is_openapi3, acc) ==
    IF list = <<>> THEN acc
    ELSE LET p == Head(list)
         IN  params_at(Tail(list), location, is_openapi3,
                 IF param_kept(p) /\ p.param_in = location
                 THEN dict_set(acc, p.name, param_info(p, is_openapi3))
                 ELSE acc)

RECURSIVE body_params(_, _, _)
body_params(content, required, acc) ==
    IF content = <<>> THEN acc
    ELSE body_params(Tail(content), required,
             dict_set(acc, Head(content)[1],
                      [required |-> required, schema |-> Head(content)[2].schema]))

extract_parameters(operation, is_openapi3) ==
    [query |-> params_at(operation.parameters.list, "query", is_openapi3, <<>>),
     path |-> params_at(operation.parameters.list, "path", is_openapi3, <<>>),
     header |-> params_at(operation.parameters.list, "header", is_openapi3, <<>>),
     body |-> IF is_openapi3 /\ operation.requestBody.key
              THEN body_params(operation.requestBody.content,
                               operation.requestBody.required,
                               params_at(operation.parameters.list, "body",
                                         is_openapi3, <<>>))
              ELSE params_at(operation.parameters.list, "body", is_openapi3, <<>>)]

\* params[param_in] raises KeyError for a location that is not one of the
\* four keys; content_spec.get raises AttributeError when a content entry is
\* not a dict
extract_parameters_raises(operation, is_openapi3) ==
    \/ \E i \in 1..Len(operation.parameters.list) :
          /\ param_kept(operation.parameters.list[i])
          /\ operation.parameters.list[i].param_in \notin PARAM_LOCATIONS
    \/ /\ is_openapi3
       /\ operation.requestBody.key
       /\ \E i \in 1..Len(operation.requestBody.content) :
             ~operation.requestBody.content[i][2].rec

extract_responses(operation) == operation.responses

(***************************************************************************)
(* str() of the values the Differ compares                                 *)
(***************************************************************************)
RECURSIVE py_str_items(_)
py_str_items(pairs) ==
    IF pairs = <<>> THEN ""
    ELSE "'" \o Head(pairs)[1] \o "': '" \o Head(pairs)[2] \o "'"
         \o (IF Tail(pairs) = <<>> THEN "" ELSE ", " \o py_str_items(Tail(pairs)))

py_str_dict(pairs) == "{" \o py_str_items(pairs) \o "}"

param_type_str_with_required(info) ==
    IF info.has_schema /\ info.schema # <<>>
    THEN py_str_dict(info.schema) \o (IF info.required THEN " required" ELSE "")
    ELSE IF ~info.has_type THEN ""
    ELSE IF info.type = NONE THEN "None"
    ELSE info.type \o (IF info.required THEN " required" ELSE "")

\* str(param.get("schema") or param.get("type", ""))
param_type_str(info) ==
    IF info.has_schema /\ info.schema # <<>> THEN py_str_dict(info.schema)
    ELSE IF ~info.has_type THEN ""
    ELSE IF info.type = NONE THEN "None"
    ELSE info.type

(***************************************************************************)
(* Differ                                                                  *)
(***************************************************************************)
diff_endpoints_added_first(old_paths, new_paths) ==
    LET removed(e) == ~dict_has(new_paths, e[1])
        added(e) == ~dict_has(old_paths, e[1])
        r == SelectSeq(old_paths, removed)
        a == SelectSeq(new_paths, added)
    IN  [i \in 1..Len(a) |-> classify_endpoint_addition(a[i][1])]
        \o [i \in 1..Len(r) |-> classify_endpoint_removal(r[i][1])]

diff_endpoints(old_paths, new_paths) ==
    LET removed(e) == ~dict_has(new_paths, e[1])
        added(e) == ~dict_has(old_paths, e[1])
        r == SelectSeq(old_paths, removed)
        a == SelectSeq(new_paths, added)
    IN  [i \in 1..Len(r) |-> classify_endpoint_removal(r[i][1])]
        \o [i \in 1..Len(a) |-> classify_endpoint_addition(a[i][1])]

\* the loop body of _diff_parameters for one location
diff_parameters_in(path, method, old_in_params, new_in_params) ==
    LET removed(e) == ~dict_has(new_in_params, e[1])
        added(e) == ~dict_has(old_in_params, e[1])
        changed(e) ==
            /\ dict_has(new_in_params, e[1])
            /\ param_type_str(e[2]) # param_type_str(dict_get(new_in_params, e[1]))
            /\ param_type_str(e[2]) # ""
            /\ param_type_str(dict_get(new_in_params, e[1])) # ""
        r == SelectSeq(old_in_params, removed)
        a == SelectSeq(new_in_params, added)
        c == SelectSeq(old_in_params, changed)
    IN  [i \in 1..Len(r) |->
            classify_parameter_change(path, method, r[i][1], "removed", FALSE)]
        \o [i \in 1..Len(a) |->
            classify_parameter_change(path, method, a[i][1], "added",
                                      a[i][2].required)]
        \o [i \in 1..Len(c) |->
            classify_parameter_change(path, method, c[i][1], "type_changed", FALSE)]

diff_parameters(path, method, old_op, new_op, is_openapi3) ==
    LET old_params == extract_parameters(old_op, is_openapi3)
        new_params == extract_parameters(new_op, is_openapi3)
    IN  diff_parameters_in(path, method, old_params.query, new_params.query)
        \o diff_parameters_in(path, method, old_params.path, new_params.path)
        \o diff_parameters_in(path, method, old_params.header, new_params.header)

schema_of_content_first_only(content) ==
    IF content = <<>> THEN NoSchema ELSE Head(content)[2].schema

\* the first content entry whose schema is truthy, {} when there is none
RECURSIVE schema_of_content(_)
schema_of_content(content) ==
    IF content = <<>> THEN NoSchema
    ELSE IF Head(content)[2].schema.present THEN Head(content)[2].schema
    ELSE schema_of_content(Tail(content))

extract_schema_from_request_body(request_body) ==
    IF ~request_body.key THEN NoSchema
    ELSE schema_of_content(request_body.content)

diff_schema_old_required(path, method, old_schema, new_schema) ==
    LET old_props == old_schema.props
        new_props == new_schema.props
        removed(e) == ~dict_has(new_props, e[1])
        added(e) == ~dict_has(old_props, e[1])
        changed(e) ==
            /\ dict_has(new_props, e[1])
            /\ e[2].type # dict_get(new_props, e[1]).type
            /\ e[2].type # ""
            /\ dict_get(new_props, e[1]).type # ""
        r == SelectSeq(old_props, removed)
        a == SelectSeq(new_props, added)
        c == SelectSeq(old_props, changed)
    IN  [i \in 1..Len(r) |->
            classify_schema_change(path, method, r[i][1], "removed", FALSE)]
        \o [i \in 1..Len(a) |->
            classify_schema_change(path, method, a[i][1], "added",
                                   a[i][1] \in old_schema.required)]
        \o [i \in 1..Len(c) |->
            classify_schema_change(path, method, c[i][1], "type_changed", FALSE)]

\* a schema is [present, props, required]: props is the `properties` dict
\* as <<name, property>> pairs; a property is [type, properties], type being
\* "" when it has no `type`, properties its own nested `properties` dict
diff_schema(path, method, old_schema, new_schema) ==
    LET old_props == old_schema.props
        new_props == new_schema.props
        removed(e) == ~dict_has(new_props, e[1])
        added(e) == ~dict_has(old_props, e[1])
        changed(e) ==
            /\ dict_has(new_props, e[1])
            /\ e[2].type # dict_get(new_props, e[1]).type
            /\ e[2].type # ""
            /\ dict_get(new_props, e[1]).type # ""
        r == SelectSeq(old_props, removed)
        a == SelectSeq(new_props, added)
        c == SelectSeq(old_props, changed)
    IN  [i \in 1..Len(r) |->
            classify_schema_change(path, method, r[i][1], "removed", FALSE)]
        \o [i \in 1..Len(a) |->
            classify_schema_change(path, method, a[i][1], "added",
                                   a[i][1] \in new_schema.required)]
        \o [i \in 1..Len(c) |->
            classify_schema_change(path, method, c[i][1], "type_changed", FALSE)]

diff_request_body_reports_new_body(path, method, old_op, new_op) ==
    LET old_body == old_op.requestBody
        new_body == new_op.requestBody
        old_schema == extract_schema_from_request_body(old_body)
        new_schema == extract_schema_from_request_body(new_body)
    IN  IF ~old_body.key /\ ~new_body.key THEN <<>>
        ELSE IF ~new_schema.present THEN <<>>
        ELSE diff_schema(path, method, old_schema, new_schema)

diff_request_body(path, method, old_op, new_op) ==
    LET old_body == old_op.requestBody
        new_body == new_op.requestBody
        old_schema == extract_schema_from_request_body(old_body)
        new_schema == extract_schema_from_request_body(new_body)
    IN  IF ~old_body.key /\ ~new_body.key THEN <<>>
        ELSE IF ~old_schema.present \/ ~new_schema.present THEN <<>>
        ELSE diff_schema(path, method, old_schema, new_schema)

diff_responses(path, method, old_op, new_op) ==
    LET old_responses == extract_responses(old_op)
        new_responses == extract_responses(new_op)
        removed(s) == \A j \in 1..Len(new_responses) : new_responses[j] # s
        added(s) == \A j \in 1..Len(old_responses) : old_responses[j] # s
        r == SelectSeq(old_responses, removed)
        a == SelectSeq(new_responses, added)
    IN  [i \in 1..Len(r) |-> classify_response_change(path, method, r[i], "removed")]
        \o [i \in 1..Len(a) |-> classify_response_change(path, method, a[i], "added")]

diff_responses_raises(old_op, new_op) ==
    \E i \in 1..Len(old_op.responses) :
        /\ \A j \in 1..Len(new_op.responses) : new_op.responses[j] # old_op.responses[i]
        /\ classify_response_change_raises(old_op.responses[i], "removed")

is_openapi3_shaped(old_op) == old_op.parameters.key \/ old_op.requestBody.key

diff_operation(path, method, old_op, new_op) ==
    LET is_openapi3 == is_openapi3_shaped(old_op)
    IN  diff_parameters(path, method, old_op, new_op, is_openapi3)
        \o (IF is_openapi3 THEN diff_request_body(path, method, old_op, new_op)
            ELSE <<>>)
        \o diff_responses(path, method, old_op, new_op)

diff_operation_raises(old_op, new_op) ==
    \/ extract_parameters_raises(old_op, is_openapi3_shaped(old_op))
    \/ extract_parameters_raises(new_op, is_openapi3_shaped(old_op))
    \/ diff_responses_raises(old_op, new_op)

\* the dict comprehensions of _diff_operations
methods_of(path_item) ==
    LET is_method(e) == e[2].rec /\ str_lower(e[1]) \in HTTP_METHODS
    IN  SelectSeq(path_item, is_method)

diff_path_item_operations_first(path, old_path_item, new_path_item) ==
    LET old_methods == methods_of(old_path_item)
        new_methods == methods_of(new_path_item)
        removed(e) == ~dict_has(new_methods, e[1])
        added(e) == ~dict_has(old_methods, e[1])
        common(e) == dict_has(new_methods, e[1])
        r == SelectSeq(old_methods, removed)
        a == SelectSeq(new_methods, added)
        c == SelectSeq(old_methods, common)
    IN  flatten([i \in 1..Len(c) |->
               diff_operation(path, c[i][1], c[i][2].op,
                              dict_get(new_methods, c[i][1]).op)])
        \o [i \in 1..Len(r) |-> classify_method_removal(path, r[i][1])]
        \o [i \in 1..Len(a) |-> classify_method_addition(path, a[i][1])]

\* the body of the loop of _diff_operations for one common path
diff_path_item(path, old_path_item, new_path_item) ==
    LET old_methods == methods_of(old_path_item)
        new_methods == methods_of(new_path_item)
        removed(e) == ~dict_has(new_methods, e[1])
        added(e) == ~dict_has(old_methods, e[1])
        common(e) == dict_has(new_methods, e[1])
        r == SelectSeq(old_methods, removed)
        a == SelectSeq(new_methods, added)
        c == SelectSeq(old_methods, common)
    IN  [i \in 1..Len(r) |-> classify_method_removal(path, r[i][1])]
        \o [i \in 1..Len(a) |-> classify_method_addition(path, a[i][1])]
        \o flatten([i \in 1..Len(c) |->
               diff_operation(path, c[i][1], c[i][2].op,
                              dict_get(new_methods, c[i][1]).op)])

diff_operations_every_old_path(old_paths, new_paths) ==
    flatten([i \in 1..Len(old_paths) |->
        diff_path_item(old_paths[i][1], old_paths[i][2].entries,
                       IF dict_has(new_paths, old_paths[i][1])
                       THEN dict_get(new_paths, old_paths[i][1]).entries
                       ELSE <<>>)])

diff_operations(old_paths, new_paths) ==
    LET common(e) == dict_has(new_paths, e[1])
        c == SelectSeq(old_paths, common)
    IN  flatten([i \in 1..Len(c) |->
            diff_path_item(c[i][1], c[i][2].entries,
                           dict_get(new_paths, c[i][1]).entries)])

\* for a common path: old_path_item.items() / new_path_item.items() raise
\* when the item is not a dict, and _diff_operation may raise
diff_operations_raises(old_paths, new_paths) ==
    \E i \in 1..Len(old_paths) :
        /\ dict_has(new_paths, old_paths[i][1])
        /\ LET old_path_item == old_paths[i][2]
               new_path_item == dict_get(new_paths, old_paths[i][1])
               old_methods == methods_of(old_path_item.entries)
               new_methods == methods_of(new_path_item.entries)
           IN  \/ ~old_path_item.rec
               \/ ~new_path_item.rec
               \/ \E j \in 1..Len(old_methods) :
                      /\ dict_has(new_methods, old_methods[j][1])
                      /\ diff_operation_raises(
                             old_methods[j][2].op,
                             dict_get(new_methods, old_methods[j][1]).op)

(***************************************************************************)
(* DiffService                                                             *)
(***************************************************************************)
NOT_GIVEN == "<not given>"

\* the default of the old_format / new_format parameters of compare_specs
DEFAULT_FORMAT == "json"

bind_format(arg) == IF arg = NOT_GIVEN THEN DEFAULT_FORMAT ELSE arg

\* `if not fmt or fmt == "auto": fmt = Parser.detect_format(content)`
resolve_format(fmt, content) ==
    IF fmt = "" \/ fmt = "auto" THEN detect_format(content) ELSE fmt

count_type(changes, type) ==
    Cardinality({i \in 1..Len(changes) : changes[i].type = type})

NoSummary == [breaking |-> 0, potentially_breaking |-> 0, non_breaking |-> 0]

build_result_two_buckets(changes) ==
    [summary |-> [breaking |-> count_type(changes, "breaking"),
                  potentially_breaking |-> 0,
                  non_breaking |-> count_type(changes, "non_breaking")],
     changes |-> changes]

build_result(changes) ==
    [summary |-> [breaking |-> count_type(changes, "breaking"),
                  potentially_breaking |-> count_type(changes, "potentially_breaking"),
                  non_breaking |-> count_type(changes, "non_breaking")],
     changes |-> changes]

Pending ==
    [kind |-> "pending", prefix |-> NONE, cause |-> NONE,
     summary |-> NoSummary, changes |-> <<>>]

\* `return result`
returned(result) ==
    [kind |-> "result", prefix |-> NONE, cause |-> NONE,
     summary |-> result.summary, changes |-> result.changes]

raise_parse_error_degraded(reason) ==
    [kind |-> "result", prefix |-> NONE, cause |-> reason,
     summary |-> NoSummary, changes |-> <<>>]

\* `except ParseError as e: raise ValueError("Specification parsing error: ...")`
raise_parse_error(reason) ==
    [kind |-> "ValueError", prefix |-> "Specification parsing error",
     cause |-> reason, summary |-> NoSummary, changes |-> <<>>]

\* `except Exception as e: raise ValueError("Unexpected error during comparison: ...")`
raise_unexpected(cause) ==
    [kind |-> "ValueError", prefix |-> "Unexpected error during comparison",
     cause |-> cause, summary |-> NoSummary, changes |-> <<>>]

\* where compare_specs goes after a Parser.parse call
after_parse(r, next_pc) == IF r.ok THEN next_pc ELSE "failed"

NoDiffer == [alive |-> FALSE, changes |-> <<>>, old_paths |-> <<>>, new_paths |-> <<>>]

\* the non-empty string that stands for a `paths` value of state "text",
\* as the characters iterating over it yields
PATHS_TEXT == <<"n", "o", "t", " ", "a", " ", "m", "a", "p">>

\* `normalized.get("paths", {})` as the Differ uses it: the keys that
\* iterating over the value yields, in order, each with the item found under
\* it.  A string yields its characters, a character is `in` it, and none of
\* them leads to a dict (indexing the string by it raises); no path name is a
\* single character or a part of PATHS_TEXT.
paths_of(normalized) ==
    IF normalized.pathsT = "text"
    THEN [i \in 1..Len(PATHS_TEXT) |->
             <<PATHS_TEXT[i], [rec |-> FALSE, entries |-> <<>>]>>]
    ELSE normalized.paths

\* `for path in old_paths` / `path not in new_paths` raise TypeError on None
diff_endpoints_raises(old_normalized, new_normalized) ==
    old_normalized.pathsT = "null" \/ new_normalized.pathsT = "null"

\* Differ.diff as one function: the change list, when nothing raises
diff(old, new) ==
    diff_endpoints(paths_of(normalize(old)), paths_of(normalize(new)))
    \o diff_operations(paths_of(normalize(old)), paths_of(normalize(new)))

diff_raises(old, new) ==
    \/ normalize_raises(old)
    \/ normalize_raises(new)
    \/ diff_endpoints_raises(normalize(old), normalize(new))
    \/ diff_operations_raises(paths_of(normalize(old)), paths_of(normalize(new)))

\* compare_specs as one function of its arguments
compare_specs(oc, nc, of_arg, nf_arg) ==
    LET of == resolve_format(bind_format(of_arg), oc)
        nf == resolve_format(bind_format(nf_arg), nc)
        po == parse(oc, of)
        pn == parse(nc, nf)
    IN  IF ~po.ok THEN raise_parse_error(po.reason)
        ELSE IF ~pn.ok THEN raise_parse_error(pn.reason)
        ELSE IF diff_raises(po.doc, pn.doc) THEN raise_unexpected("exception")
        ELSE returned(build_result(diff(po.doc, pn.doc)))

(***************************************************************************)
(* One compare_specs call, step by step                                    *)
(***************************************************************************)
\* the call binds its parameters: an omitted format takes the default
Call ==
    /\ pc = "call"
    /\ old_format' = bind_format(call_args.old_format)
    /\ new_format' = bind_format(call_args.new_format)
    /\ pc' = "detect"
    /\ UNCHANGED <<old_content, new_content, old_spec, new_spec, differ,
                   differ_runs, outcome, call_args, last_call, calls, heap>>

DetectFormats ==
    /\ pc = "detect"
    /\ old_format' = resolve_format(old_format, old_content)
    /\ new_format' = resolve_format(new_format, new_content)
    /\ pc' = "parse_old"
    /\ UNCHANGED <<old_content, new_content, old_spec, new_spec, differ,
                   differ_runs, outcome, call_args, last_call, calls, heap>>

ParseOld ==
    /\ pc = "parse_old"
    /\ LET r == parse(old_content, old_format)
       IN  /\ old_spec' = r.doc
           /\ pc' = after_parse(r, "parse_new")
           /\ outcome' = IF r.ok THEN outcome ELSE raise_parse_error(r.reason)
    /\ UNCHANGED <<old_content, new_content, old_format, new_format, new_spec,
                   differ, differ_runs, call_args, last_call, calls, heap>>

ParseNew ==
    /\ pc = "parse_new"
    /\ LET r == parse(new_content, new_format)
       IN  /\ new_spec' = r.doc
           /\ pc' = after_parse(r, "diff")
           /\ outcome' = IF r.ok THEN outcome ELSE raise_parse_error(r.reason)
    /\ UNCHANGED <<old_content, new_content, old_format, new_format, old_spec,
                   differ, differ_runs, call_args, last_call, calls, heap>>

\* Differ(), then the head of Differ.diff: the accumulator is emptied and both
\* documents are normalized.  Both passed Parser.parse, so each has a version
\* key and its normalized `paths` is a dict
DiffBegin ==
    /\ pc = "diff"
    /\ differ_runs' = differ_runs + 1
    /\ IF normalize_raises(old_spec) \/ normalize_raises(new_spec)
       THEN /\ differ' = NoDiffer
            /\ pc' = "failed"
            /\ outcome' = raise_unexpected("exception")
       ELSE /\ differ' = [alive |-> TRUE, changes |-> <<>>,
                          old_paths |-> paths_of(normalize(old_spec)),
                          new_paths |-> paths_of(normalize(new_spec))]
            /\ pc' = "diff_endpoints"
            /\ outcome' = outcome
    /\ UNCHANGED <<old_content, new_content, old_format, new_format, old_spec,
                   new_spec, call_args, last_call, calls, heap>>

DiffEndpoints ==
    /\ pc = "diff_endpoints"
    /\ differ' = [differ EXCEPT !.changes =
                     @ \o diff_endpoints(differ.old_paths, differ.new_paths)]
    /\ pc' = "diff_operations"
    /\ UNCHANGED <<old_content, new_content, old_format, new_format, old_spec,
                   new_spec, differ_runs, outcome, call_args, last_call, calls, heap>>

\* an exception unwinds compare_specs: the Differ and its accumulator are dropped
DiffOperations ==
    /\ pc = "diff_operations"
    /\ IF diff_operations_raises(differ.old_paths, differ.new_paths)
       THEN /\ differ' = NoDiffer
            /\ pc' = "failed"
            /\ outcome' = raise_unexpected("exception")
       ELSE /\ differ' = [differ EXCEPT !.changes =
                             @ \o diff_operations(differ.old_paths, differ.new_paths)]
            /\ pc' = "build"
            /\ outcome' = outcome
    /\ UNCHANGED <<old_content, new_content, old_format, new_format, old_spec,
                   new_spec, differ_runs, call_args, last_call, calls, heap>>

BuildResult ==
    /\ pc = "build"
    /\ outcome' = returned(build_result(differ.changes))
    /\ pc' = "done"
    /\ UNCHANGED <<old_content, new_content, old_format, new_format, old_spec,
                   new_spec, differ, differ_runs, call_args, last_call, calls, heap>>

NextCompare ==
    \/ Call
    \/ DetectFormats
    \/ ParseOld
    \/ ParseNew
    \/ DiffBegin
    \/ DiffEndpoints
    \/ DiffOperations
    \/ BuildResult

(***************************************************************************)
(* Concurrent compare_specs calls.  Each call has a frame (its arguments   *)
(* and locals); the Differ objects live on a heap and a frame holds a      *)
(* reference to the one it constructed.  A step of a call is one of the    *)
(* statements of compare_specs / Differ.diff.                              *)
(***************************************************************************)
single_vars == <<old_content, new_content, old_format, new_format, pc, old_spec,
                 new_spec, differ, differ_runs, outcome, call_args, last_call>>

NoRef == 0

Frame(oc, nc, of_arg, nf_arg) ==
    [old_content |-> oc, new_content |-> nc,
     args |-> [old_format |-> of_arg, new_format |-> nf_arg],
     old_format |-> NONE, new_format |-> NONE, pc |-> "call",
     old_spec |-> NoDoc, new_spec |-> NoDoc, differ |-> NoRef,
     old_paths |-> <<>>, new_paths |-> <<>>, outcome |-> Pending]

new_differ_shared(objects) == 1

\* `differ = Differ()`: the reference of a newly constructed object
new_differ(objects) == Len(objects) + 1

\* Differ.__init__ on the constructed object, then `self.changes = []` of diff
construct(objects, ref) ==
    LET built == IF ref > Len(objects)
                 THEN Append(objects, [changes |-> <<>>])
                 ELSE objects
    IN  [built EXCEPT ![ref].changes = <<>>]

ThreadCall(c) ==
    /\ c \in DOMAIN calls
    /\ calls[c].pc = "call"
    /\ calls' = [calls EXCEPT ![c].old_format = bind_format(calls[c].args.old_format),
                              ![c].new_format = bind_format(calls[c].args.new_format),
                              ![c].pc = "detect"]
    /\ UNCHANGED <<heap, single_vars>>

ThreadDetectFormats(c) ==
    /\ c \in DOMAIN calls
    /\ calls[c].pc = "detect"
    /\ calls' = [calls EXCEPT
                    ![c].old_format = resolve_format(@, calls[c].old_content),
                    ![c].new_format = resolve_format(@, calls[c].new_content),
                    ![c].pc = "parse_old"]
    /\ UNCHANGED <<heap, single_vars>>

ThreadParseOld(c) ==
    /\ c \in DOMAIN calls
    /\ calls[c].pc = "parse_old"
    /\ LET r == parse(calls[c].old_content, calls[c].old_format)
       IN  calls' = [calls EXCEPT
                        ![c].old_spec = r.doc,
                        ![c].pc = after_parse(r, "parse_new"),
                        ![c].outcome = IF r.ok THEN @ ELSE raise_parse_error(r.reason)]
    /\ UNCHANGED <<heap, single_vars>>

ThreadParseNew(c) ==
    /\ c \in DOMAIN calls
    /\ calls[c].pc = "parse_new"
    /\ LET r == parse(calls[c].new_content, calls[c].new_format)
       IN  calls' = [calls EXCEPT
                        ![c].new_spec = r.doc,
                        ![c].pc = after_parse(r, "diff"),
                        ![c].outcome = IF r.ok THEN @ ELSE raise_parse_error(r.reason)]
    /\ UNCHANGED <<heap, single_vars>>

ThreadDiffBegin(c) ==
    /\ c \in DOMAIN calls
    /\ calls[c].pc = "diff"
    /\ LET ref == new_differ(heap)
           raises == normalize_raises(calls[c].old_spec)
                         \/ normalize_raises(calls[c].new_spec)
       IN  /\ heap' = construct(heap, ref)
           /\ calls' = [calls EXCEPT
                   ![c].differ = ref,
                   ![c].old_paths = IF raises THEN <<>>
                                    ELSE paths_of(normalize(calls[c].old_spec)),
                   ![c].new_paths = IF raises THEN <<>>
                                    ELSE paths_of(normalize(calls[c].new_spec)),
                   ![c].pc = IF raises THEN "failed" ELSE "diff_endpoints",
                   ![c].outcome = IF raises THEN raise_unexpected("exception") ELSE @]
    /\ UNCHANGED single_vars

ThreadDiffEndpoints(c) ==
    /\ c \in DOMAIN calls
    /\ calls[c].pc = "diff_endpoints"
    /\ heap' = [heap EXCEPT ![calls[c].differ].changes =
                    @ \o diff_endpoints(calls[c].old_paths, calls[c].new_paths)]
    /\ calls' = [calls EXCEPT ![c].pc = "diff_operations"]
    /\ UNCHANGED single_vars

ThreadDiffOperations(c) ==
    /\ c \in DOMAIN calls
    /\ calls[c].pc = "diff_operations"
    /\ IF diff_operations_raises(calls[c].old_paths, calls[c].new_paths)
       THEN /\ heap' = heap
            /\ calls' = [calls EXCEPT ![c].pc = "failed",
                                      ![c].outcome = raise_unexpected("exception")]
       ELSE /\ heap' = [heap EXCEPT ![calls[c].differ].changes =
                            @ \o diff_operations(calls[c].old_paths, calls[c].new_paths)]
            /\ calls' = [calls EXCEPT ![c].pc = "build"]
    /\ UNCHANGED single_vars

\* `return self.changes`, then _build_result on the returned list
ThreadBuildResult(c) ==
    /\ c \in DOMAIN calls
    /\ calls[c].pc = "build"
    /\ calls' = [calls EXCEPT
                    ![c].pc = "done",
                    ![c].outcome = returned(build_result(heap[calls[c].differ].changes))]
    /\ UNCHANGED <<heap, single_vars>>

NextConcurrent ==
    \/ \E c \in 1..MaxCalls : ThreadCall(c)
    \/ \E c \in 1..MaxCalls : ThreadDetectFormats(c)
    \/ \E c \in 1..MaxCalls : ThreadParseOld(c)
    \/ \E c \in 1..MaxCalls : ThreadParseNew(c)
    \/ \E c \in 1..MaxCalls : ThreadDiffBegin(c)
    \/ \E c \in 1..MaxCalls : ThreadDiffEndpoints(c)
    \/ \E c \in 1..MaxCalls : ThreadDiffOperations(c)
    \/ \E c \in 1..MaxCalls : ThreadBuildResult(c)

(***************************************************************************)
(* Direct Classifier calls                                                 *)
(***************************************************************************)
NoStatus == [kind |-> "str", text |-> NONE]

NoCall ==
    [fn |-> NONE, path |-> NONE, method |-> NONE, name |-> NONE,
     change_type |-> NONE, is_required |-> FALSE, status |-> NoStatus,
     severity |-> NONE,
     result |-> Change(NONE, NONE, NONE, NONE, NONE, NONE)]

CallPaths == {"/users", "/posts"}
CallMethods == {"get", "POST", "Get"}
CallNames == {"id", "limit"}
CallChangeTypes == {"added", "removed", "type_changed", "renamed"}
CallStatuses ==
    { [kind |-> "str", text |-> t] : t \in {"200", "201", "2XX", "404", "500", "default"} }

ClassifyEndpointRemoval ==
    /\ UNCHANGED compare_vars
    /\ \E path \in CallPaths :
        last_call' = [NoCall EXCEPT !.fn = "classify_endpoint_removal",
                                    !.path = path, !.change_type = "removed",
                                    !.result = classify_endpoint_removal(path)]

ClassifyEndpointAddition ==
    /\ UNCHANGED compare_vars
    /\ \E path \in CallPaths :
        last_call' = [NoCall EXCEPT !.fn = "classify_endpoint_addition",
                                    !.path = path, !.change_type = "added",
                                    !.result = classify_endpoint_addition(path)]

ClassifyMethodRemoval ==
    /\ UNCHANGED compare_vars
    /\ \E path \in CallPaths, method \in CallMethods :
        last_call' = [NoCall EXCEPT !.fn = "classify_method_removal",
                                    !.path = path, !.method = method,
                                    !.change_type = "removed",
                                    !.result = classify_method_removal(path, method)]

ClassifyMethodAddition ==
    /\ UNCHANGED compare_vars
    /\ \E path \in CallPaths, method \in CallMethods :
        last_call' = [NoCall EXCEPT !.fn = "classify_method_addition",
                                    !.path = path, !.method = method,
                                    !.change_type = "added",
                                    !.result = classify_method_addition(path, method)]

ClassifyParameterChange ==
    /\ UNCHANGED compare_vars
    /\ \E path \in CallPaths, method \in CallMethods, name \in CallNames,
       change_type \in CallChangeTypes, is_required \in BOOLEAN :
        last_call' = [fn |-> "classify_parameter_change", path |-> path,
                      method |-> method, name |-> name,
                      change_type |-> change_type, is_required |-> is_required,
                      status |-> NoStatus, severity |-> NONE,
                      result |-> classify_parameter_change(
                                     path, method, name, change_type, is_required)]

ClassifySchemaChange ==
    /\ UNCHANGED compare_vars
    /\ \E path \in CallPaths, method \in CallMethods, name \in CallNames,
       change_type \in CallChangeTypes, is_required \in BOOLEAN :
        last_call' = [fn |-> "classify_schema_change", path |-> path,
                      method |-> method, name |-> name,
                      change_type |-> change_type, is_required |-> is_required,
                      status |-> NoStatus, severity |-> NONE,
                      result |-> classify_schema_change(
                                     path, method, name, change_type, is_required)]

ClassifyResponseChange ==
    /\ UNCHANGED compare_vars
    /\ \E path \in CallPaths, method \in CallMethods, status \in CallStatuses,
       change_type \in CallChangeTypes :
        /\ ~classify_response_change_raises(status, change_type)
        /\ last_call' = [fn |-> "classify_response_change", path |-> path,
                         method |-> method, name |-> NONE,
                         change_type |-> change_type, is_required |-> FALSE,
                         status |-> status, severity |-> NONE,
                         result |-> classify_response_change(
                                        path, method, status, change_type)]

\* the reason identifiers of the three buckets, and some that are in none
RuleIds ==
    dict_keys(BREAKING_RULES) \cup dict_keys(POTENTIALLY_BREAKING_RULES)
    \cup dict_keys(NON_BREAKING_RULES)
    \cup {"response_removed", "parameter_renamed", ""}

\* a direct call of rules.classify_change
ClassifyChange ==
    /\ UNCHANGED compare_vars
    /\ \E rule_type \in RuleIds :
        last_call' = [NoCall EXCEPT !.fn = "classify_change",
                                    !.name = rule_type,
                                    !.severity = classify_change(rule_type)]

NextClassifier ==
    \/ ClassifyChange
    \/ ClassifyEndpointRemoval
    \/ ClassifyEndpointAddition
    \/ ClassifyMethodRemoval
    \/ ClassifyMethodAddition
    \/ ClassifyParameterChange
    \/ ClassifySchemaChange
    \/ ClassifyResponseChange

(***************************************************************************)
(* Inputs                                                                  *)
(***************************************************************************)
S200 == [kind |-> "str", text |-> "200"]
S201 == [kind |-> "str", text |-> "201"]
S404 == [kind |-> "str", text |-> "404"]
I200 == [kind |-> "int", text |-> "200"]
I404 == [kind |-> "int", text |-> "404"]

Param(param_in, name, required, schema, type) ==
    [param_in |-> param_in, name |-> name, required |-> required,
     schema |-> schema, type |-> type]

SchemaString == << <<"type", "string">> >>
SchemaInteger == << <<"type", "integer">> >>

Params(list) == [key |-> TRUE, list |-> list]

Responses(op, responses) == [op EXCEPT !.responses = responses]

WithParams(list, responses) ==
    [parameters |-> Params(list), requestBody |-> NoBody, responses |-> responses]

Prop(type) == [type |-> type, properties |-> <<>>]

\* an object-typed property with nested properties <<name, type>>
NestedProp(properties) == [type |-> "object", properties |-> properties]

BodySchema(props, required) == [present |-> TRUE, props |-> props, required |-> required]

ContentRec(schema) == [rec |-> TRUE, schema |-> schema]

ContentNotRec == [rec |-> FALSE, schema |-> NoSchema]

WithBody(content, responses) ==
    [parameters |-> NoParams,
     requestBody |-> [key |-> TRUE, required |-> TRUE, content |-> content],
     responses |-> responses]

Operations ==
    { EmptyOp,
      Responses(EmptyOp, <<S200>>),
      Responses(EmptyOp, <<S200, S404>>),
      Responses(EmptyOp, <<S201>>),
      Responses(EmptyOp, <<I200>>),
      Responses(EmptyOp, <<S200, I404>>),
      WithParams(<<Param("query", "id", TRUE, SchemaString, NONE)>>, <<S200>>),
      WithParams(<<Param("query", "id", TRUE, SchemaInteger, NONE)>>, <<S200>>),
      WithParams(<<Param("query", "id", FALSE, SchemaString, NONE),
                   Param("header", "limit", FALSE, <<>>, NONE)>>, <<S200>>),
      WithParams(<<Param("path", "id", TRUE, SchemaString, NONE),
                   Param("query", "limit", TRUE, SchemaInteger, NONE)>>, <<S200, S404>>),
      WithParams(<<Param("query", "id", FALSE, SchemaString, NONE)>>, <<S200>>),
      WithParams(<<Param("query", "id", FALSE, <<>>, "string")>>, <<S200>>),
      WithParams(<<Param("cookie", "session", FALSE, SchemaString, NONE)>>, <<S200>>),
      WithParams(<<Param("formData", "file", TRUE, <<>>, "file")>>, <<S200>>),
      WithParams(<<Param("query", "id", TRUE, <<>>, "string")>>, <<S200>>),
      WithParams(<<Param("query", "id", TRUE, <<>>, "integer")>>, <<S200>>),
      WithParams(<<Param(NONE, NONE, FALSE, <<>>, NONE)>>, <<S200>>),
      WithBody(<< <<"application/json",
                    ContentRec(BodySchema(<< <<"name", Prop("string")>> >>, {"name"}))>> >>,
               <<S201>>),
      WithBody(<< <<"application/json",
                    ContentRec(BodySchema(<< <<"name", Prop("string")>>, <<"email", Prop("string")>> >>,
                                          {"name", "email"}))>> >>,
               <<S201>>),
      WithBody(<< <<"application/json",
                    ContentRec(BodySchema(<< <<"name", Prop("integer")>>, <<"age", Prop("")>> >>, {}))>> >>,
               <<S201>>),
      WithBody(<< <<"application/xml", ContentRec(NoSchema)>>,
                  <<"application/json",
                    ContentRec(BodySchema(<< <<"email", Prop("string")>> >>, {}))>> >>,
               <<S201>>),
      WithBody(<< <<"application/json",
                    ContentRec(BodySchema(<< <<"name", Prop("string")>> >>, {"name"}))>>,
                  <<"application/xml",
                    ContentRec(BodySchema(<< <<"name", Prop("integer")>>, <<"id", Prop("string")>> >>,
                                          {"id"}))>> >>,
               <<S201>>),
      WithBody(<< <<"application/json",
                    ContentRec(BodySchema(
                        << <<"address", NestedProp(<< <<"street", "string">> >>)>> >>,
                        {}))>> >>,
               <<S201>>),
      WithBody(<< <<"application/json",
                    ContentRec(BodySchema(
                        << <<"address", NestedProp(<< <<"street", "integer">>,
                                                      <<"city", "string">> >>)>> >>,
                        {}))>> >>,
               <<S201>>),
      WithBody(<< <<"application/json", ContentNotRec>> >>, <<S201>>) }

OpRec(op) == [rec |-> TRUE, op |-> op]

OpNotRec == [rec |-> FALSE, op |-> EmptyOp]

PathItem(entries) == [rec |-> TRUE, entries |-> entries]

PathItemNotRec == [rec |-> FALSE, entries |-> <<>>]

ValidDoc(dialect, paths) ==
    [openapi |-> IF dialect = "openapi3" THEN "value" ELSE "absent",
     swagger |-> IF dialect = "swagger2" THEN "value" ELSE "absent",
     info |-> "value", pathsT |-> "map", paths |-> paths]

\* sequences of 1..n elements of S with pairwise different first components
KeyedSeqs(S, n) ==
    { q \in UNION { [1..k -> S] : k \in 1..n } :
        \A i, j \in 1..Len(q) : i # j => q[i][1] # q[j][1] }

\* endpoint-level inputs: up to MaxPaths paths, each with one GET operation
PathNames == {"/users", "/posts", "/items"}

EndpointItems ==
    { PathItem(<< <<"get", OpRec(Responses(EmptyOp, <<S200>>))>> >>),
      PathItem(<< <<"get", OpRec(Responses(EmptyOp, <<I200>>))>> >>),
      PathItem(<< <<"post", OpRec(Responses(EmptyOp, <<S201>>))>> >>) }

EndpointDocs ==
    { ValidDoc("openapi3", q) : q \in KeyedSeqs(PathNames \X EndpointItems, MaxPaths) }

\* method-level inputs: one path whose item has up to MaxMethods keys
MethodEntries ==
    { <<"get", OpRec(Responses(EmptyOp, <<S200>>))>>,
      <<"GET", OpRec(Responses(EmptyOp, <<S200, S404>>))>>,
      <<"post", OpRec(Responses(EmptyOp, <<S201>>))>>,
      <<"put", OpNotRec>>,
      <<"put", OpRec(Responses(EmptyOp, <<S200>>))>>,
      <<"GET", OpNotRec>>,
      <<"summary", OpNotRec>> }

MethodDocs ==
    { ValidDoc("swagger2", << <<"/users", PathItem(q)>> >>) :
        q \in KeyedSeqs(MethodEntries, MaxMethods) }
    \cup { ValidDoc("swagger2", << <<"/users", PathItemNotRec>> >>) }

\* operation-level inputs: one path, one GET operation
OperationDocs ==
    { ValidDoc("openapi3", << <<"/users", PathItem(<< <<"get", OpRec(op)>> >>)>> >>) :
        op \in Operations }

\* Swagger v2 operations: parameters carry a flat `type`, there is no
\* requestBody
SwaggerOperations ==
    { op \in Operations :
        /\ ~op.requestBody.key
        /\ \A i \in 1..Len(op.parameters.list) : op.parameters.list[i].schema = <<>> }

SwaggerOperationDocs ==
    { ValidDoc("swagger2", << <<"/users", PathItem(<< <<"get", OpRec(op)>> >>)>> >>) :
        op \in SwaggerOperations }

\* JSON object keys are strings: a document with an int status key can only
\* be written in YAML
json_expressible(doc) ==
    \A i \in 1..Len(doc.paths) :
        \A j \in 1..Len(doc.paths[i][2].entries) :
            LET rs == doc.paths[i][2].entries[j][2].op.responses
            IN  \A k \in 1..Len(rs) : rs[k].kind = "str"

JsonText(doc) == [syntax |-> "json", brace |-> TRUE, top |-> "mapping", doc |-> doc]

YamlText(doc) == [syntax |-> "yaml", brace |-> FALSE, top |-> "mapping", doc |-> doc]

YamlFlowText(doc) == [syntax |-> "yaml", brace |-> TRUE, top |-> "mapping", doc |-> doc]

\* JSON indented with tabs
JsonTabText(doc) == [syntax |-> "json_tab", brace |-> TRUE, top |-> "mapping", doc |-> doc]

text_of(doc) == IF json_expressible(doc) THEN JsonText(doc) ELSE YamlText(doc)

\* texts that do not decode to a mapping
OtherTexts ==
    { [syntax |-> "empty", brace |-> FALSE, top |-> "scalar", doc |-> NoDoc],
      [syntax |-> "blank", brace |-> FALSE, top |-> "scalar", doc |-> NoDoc],
      [syntax |-> "blank_tab", brace |-> FALSE, top |-> "scalar", doc |-> NoDoc],
      [syntax |-> "json_tab", brace |-> FALSE, top |-> "list", doc |-> NoDoc],
      [syntax |-> "yaml_value", brace |-> FALSE, top |-> "scalar", doc |-> NoDoc],
      [syntax |-> "json_value", brace |-> TRUE, top |-> "scalar", doc |-> NoDoc],
      [syntax |-> "json", brace |-> FALSE, top |-> "list", doc |-> NoDoc],
      [syntax |-> "json", brace |-> FALSE, top |-> "scalar", doc |-> NoDoc],
      [syntax |-> "yaml", brace |-> FALSE, top |-> "scalar", doc |-> NoDoc],
      [syntax |-> "yaml", brace |-> FALSE, top |-> "list", doc |-> NoDoc],
      [syntax |-> "neither", brace |-> TRUE, top |-> "scalar", doc |-> NoDoc],
      [syntax |-> "neither", brace |-> FALSE, top |-> "scalar", doc |-> NoDoc] }

OnePath == << <<"/users", PathItem(<< <<"get", OpRec(Responses(EmptyOp, <<S200>>))>> >>)>> >>

\* mappings in every state of the four top-level keys the Parser reads
TopLevelDocs ==
    { [openapi |-> o, swagger |-> w, info |-> i, pathsT |-> p,
       paths |-> IF p = "map" THEN OnePath ELSE <<>>] :
        o \in {"absent", "empty", "value"}, w \in {"absent", "null", "value"},
        i \in KeyStates, p \in PathsStates }

ParserTexts ==
    OtherTexts
    \cup { JsonText(d) : d \in TopLevelDocs }
    \cup { YamlText(d) : d \in TopLevelDocs }
    \cup { YamlFlowText(d) : d \in TopLevelDocs }
    \cup { JsonTabText(d) : d \in TopLevelDocs }

FormatArgs == {"json", "yaml", "auto", "", NOT_GIVEN, "xml", "YAML"}

InitCall(oc, nc, of_arg, nf_arg) ==
    /\ old_content = oc
    /\ new_content = nc
    /\ call_args = [old_format |-> of_arg, new_format |-> nf_arg]
    /\ old_format = NONE
    /\ new_format = NONE
    /\ pc = "call"
    /\ old_spec = NoDoc
    /\ new_spec = NoDoc
    /\ differ = NoDiffer
    /\ differ_runs = 0
    /\ outcome = Pending
    /\ last_call = NoCall
    /\ calls = <<>>
    /\ heap = <<>>

\* a compare_specs call on two valid documents, formats detected
Init ==
    \E family \in {EndpointDocs, MethodDocs, OperationDocs, SwaggerOperationDocs} :
        \E a \in family, b \in family :
            InitCall(text_of(a), text_of(b), "auto", "auto")

Next == NextCompare

Spec == Init /\ [][Next]_vars

\* a compare_specs call on any text, with any format arguments
InitParser ==
    \E oc \in ParserTexts, of_arg \in FormatArgs, nf_arg \in {"auto", NOT_GIVEN} :
        \E nc \in {oc, JsonText(ValidDoc("openapi3", OnePath)),
                   [syntax |-> "yaml", brace |-> FALSE, top |-> "scalar", doc |-> NoDoc]} :
            InitCall(oc, nc, of_arg, nf_arg)

SpecParser == InitParser /\ [][NextCompare]_vars

\* direct calls of the Classifier's functions, no compare_specs call running
InitClassifier ==
    /\ InitCall(JsonText(ValidDoc("openapi3", OnePath)),
                JsonText(ValidDoc("openapi3", OnePath)), "auto", "auto")
    /\ last_call = NoCall

SpecClassifier == InitClassifier /\ [][NextClassifier]_vars

\* the compare_specs calls that run concurrently: (old, new) document pairs
\* with removed, added and common paths, method changes, and a pair on which
\* the comparison raises
ConcurrentDocs ==
    << ValidDoc("openapi3", OnePath),
       ValidDoc("openapi3",
           OnePath \o << <<"/posts", PathItem(<< <<"get", OpRec(Responses(EmptyOp, <<S200>>))>> >>)>> >>),
       ValidDoc("openapi3",
           << <<"/users", PathItem(<< <<"get", OpRec(Responses(EmptyOp, <<S200, S404>>))>>,
                                      <<"post", OpRec(Responses(EmptyOp, <<S201>>))>> >>)>> >>),
       ValidDoc("openapi3",
           << <<"/users", PathItem(<< <<"get", OpRec(Responses(EmptyOp, <<I200>>))>> >>)>> >>) >>

ConcurrentPairs == { <<1, 2>>, <<2, 1>>, <<3, 1>>, <<1, 3>>, <<4, 1>>, <<2, 3>> }

InitConcurrent ==
    /\ old_content = JsonText(ValidDoc("openapi3", OnePath))
    /\ new_content = JsonText(ValidDoc("openapi3", OnePath))
    /\ call_args = [old_format |-> "auto", new_format |-> "auto"]
    /\ old_format = NONE
    /\ new_format = NONE
    /\ pc = "call"
    /\ old_spec = NoDoc
    /\ new_spec = NoDoc
    /\ differ = NoDiffer
    /\ differ_runs = 0
    /\ outcome = Pending
    /\ last_call = NoCall
    /\ heap = <<>>
    /\ \E pairs \in [1..MaxCalls -> ConcurrentPairs] :
          calls = [c \in 1..MaxCalls |->
                      Frame(text_of(ConcurrentDocs[pairs[c][1]]),
                            text_of(ConcurrentDocs[pairs[c][2]]), "auto", "auto")]

SpecConcurrent == InitConcurrent /\ [][NextConcurrent]_vars

\* documents handed to Normalizer.normalize directly: the method-level path
\* items under every combination of the `openapi` and `swagger` keys, and
\* the mappings in every state of the top-level keys
NormalizerDocs ==
    { [d EXCEPT !.openapi = o, !.swagger = w] :
        d \in MethodDocs, o \in {"absent", "value"}, w \in {"absent", "value"} }
    \cup TopLevelDocs

\* a direct call of Normalizer.normalize
NormalizeCall ==
    /\ UNCHANGED compare_vars
    /\ \E spec \in NormalizerDocs :
        last_call' = [fn |-> "normalize", spec |-> spec,
                      raised |-> normalize_raises(spec),
                      normalizedT |-> IF normalize_raises(spec) THEN NONE
                                      ELSE normalize(spec).pathsT,
                      normalized |-> IF normalize_raises(spec) THEN <<>>
                                     ELSE normalize(spec).paths]

NextNormalizer == NormalizeCall

SpecNormalizer == InitClassifier /\ [][NextNormalizer]_vars

(***************************************************************************)
(* Properties                                                              *)
(***************************************************************************)
Severities == {"breaking", "potentially_breaking", "non_breaking"}

RECURSIVE occurrences(_, _)
occurrences(changes, type) ==
    IF changes = <<>> THEN 0
    ELSE (IF Head(changes).type = type THEN 1 ELSE 0) + occurrences(Tail(changes), type)

\* C1: for every successful compare call the three summary counts add up to
\* the length of the returned change list, and every change is counted in
\* exactly the bucket named by its type.
C1_SummaryPartition ==
    pc = "done" =>
        /\ outcome.kind = "result"
        /\ outcome.summary.breaking + outcome.summary.potentially_breaking
               + outcome.summary.non_breaking = Len(outcome.changes)
        /\ \A i \in 1..Len(outcome.changes) : outcome.changes[i].type \in Severities
        /\ \A t \in Severities : outcome.summary[t] = occurrences(outcome.changes, t)

C1_Witness ==
    /\ pc = "done"
    /\ outcome.summary.breaking > 0
    /\ outcome.summary.potentially_breaking > 0
    /\ outcome.summary.non_breaking > 0

finished == pc \in {"done", "failed"}

\* both documents were accepted by Parser.parse
both_parsed == pc \notin {"call", "detect", "parse_old", "parse_new"} /\ differ_runs > 0

\* C2: for every document S that passes Parser validation, compare(S, S)
\* succeeds and returns an empty change list with all three counts 0.
C2_SelfDiffEmpty ==
    (finished /\ both_parsed /\ old_content = new_content) =>
        /\ outcome.kind = "result"
        /\ outcome.changes = <<>>
        /\ outcome.summary = NoSummary

\* C3: for every pair of documents that both pass Parser validation,
\* normalization and diffing raise nothing: compare returns a result and
\* never the generic "unexpected error" failure.
C3_NoUnexpectedError ==
    (finished /\ both_parsed) =>
        /\ outcome.kind = "result"
        /\ outcome.prefix # "Unexpected error during comparison"

\* Parser.parse has been applied to the old input
old_parsed == pc \notin {"call", "detect", "parse_old"}

\* Parser.parse has been applied to the new input
new_parsed == old_parsed /\ old_spec # NoDoc /\ pc # "parse_new"

\* C4: a format of "auto", or an omitted format argument, makes compare parse
\* that input in the format detect_format returns for it: JSON when the
\* stripped content begins with '{', YAML otherwise; a valid YAML document
\* passed with no format argument is parsed as YAML.
C4_AutoOrOmittedDetects ==
    /\ (old_parsed /\ call_args.old_format \in {"auto", NOT_GIVEN}) =>
           LET r == parse(old_content, detect_format(old_content))
           IN  /\ old_spec = r.doc
               /\ ~r.ok => (pc = "failed" /\ outcome.cause = r.reason)
    /\ (new_parsed /\ call_args.new_format \in {"auto", NOT_GIVEN}) =>
           LET r == parse(new_content, detect_format(new_content))
           IN  /\ new_spec = r.doc
               /\ ~r.ok => (pc = "failed" /\ outcome.cause = r.reason)

old_parse_failed == ~parse(old_content, old_format).ok

new_parse_failed == ~parse(new_content, new_format).ok

failed_with(reason) ==
    /\ pc = "failed"
    /\ outcome.kind = "ValueError"
    /\ outcome.prefix = "Specification parsing error"
    /\ outcome.cause = reason
    /\ outcome.changes = <<>>
    /\ outcome.summary = NoSummary
    /\ differ_runs = 0
    /\ ~differ.alive

\* C5: when parsing of the old or of the new input fails, compare fails as a
\* whole with the one ValueError kind carrying the parser's cause, returns no
\* summary and no changes, and the Differ is never run.
C5_ParseFailureFailsWhole ==
    /\ (old_parsed /\ old_parse_failed)
           => failed_with(parse(old_content, old_format).reason)
    /\ (old_parsed /\ pc # "parse_new" /\ ~old_parse_failed /\ new_parse_failed)
           => failed_with(parse(new_content, new_format).reason)

C5_Witness ==
    /\ pc = "failed"
    /\ ~old_parse_failed
    /\ new_parse_failed
    /\ old_spec = old_content.doc
    /\ old_spec # NoDoc

\* The six checks of Parser.parse, each as the condition the parser evaluates.
check_fails(k, content, file_type) ==
    CASE k = 1 -> content.syntax \in {"empty", "blank", "blank_tab"}
      [] k = 2 -> IF str_lower(file_type) = "json"
                  THEN content.syntax \notin {"json", "json_tab"}
                  ELSE content.syntax \notin {"json", "yaml"}
      [] k = 3 -> content.top # "mapping"
      [] k = 4 -> ~truthy(content.doc.openapi) /\ ~truthy(content.doc.swagger)
      [] k = 5 -> ~truthy(content.doc.info)
      [] k = 6 -> ~truthy(content.doc.pathsT)

\* the reason of a check; a decoder that fails with an exception which is
\* not its syntax error is reported under the general decoding reason
check_reason(k, content, file_type) ==
    CASE k = 1 -> MSG_EMPTY
      [] k = 2 -> IF str_lower(file_type) = "json"
                  THEN (IF content.syntax = "json_value"
                        THEN MSG_FAILED_DECODER ELSE MSG_JSON)
                  ELSE (IF content.syntax \in {"yaml_value", "json_value"}
                        THEN MSG_FAILED_DECODER ELSE MSG_YAML)
      [] k = 3 -> MSG_NOT_OBJECT
      [] k = 4 -> MSG_VERSION
      [] k = 5 -> MSG_INFO
      [] k = 6 -> MSG_PATHS

supported(file_type) == str_lower(file_type) \in {"json", "yaml", "yml"}

\* C6: Parser.parse applies its checks in the order EmptyInput, SyntaxError,
\* NotAnObject, MissingVersionDiscriminator, MissingInfo, MissingPaths: it
\* reports the reason of the first check in that order that the input fails,
\* the six reasons are pairwise distinct, and a failure returns no document;
\* an input that fails none of them is returned decoded.
C6_ChecksInOrder ==
    (old_parsed /\ supported(old_format)) =>
        LET failing == {k \in 1..6 : check_fails(k, old_content, old_format)}
        IN  /\ \A j, k \in 1..6 :
                   j # k => check_reason(j, old_content, old_format)
                            # check_reason(k, old_content, old_format)
            /\ failing # {} =>
                   /\ pc = "failed"
                   /\ outcome.cause =
                          check_reason(CHOOSE k \in failing : \A j \in failing : k <= j,
                                       old_content, old_format)
                   /\ old_spec = NoDoc
            /\ failing = {} =>
                   /\ old_spec = old_content.doc
                   /\ old_spec # NoDoc

C6_Witness ==
    /\ old_parsed
    /\ supported(old_format)
    /\ old_content.top = "mapping"
    /\ old_content.doc.openapi = "absent"
    /\ old_content.doc.swagger = "absent"
    /\ old_content.doc.pathsT = "absent"
    /\ old_content.doc.info = "value"
    /\ outcome.cause = MSG_VERSION

\* C7: Parser.parse returns the decoded document for every non-empty content
\* that decodes to a mapping having an `openapi` or `swagger` key, an `info`
\* key and a `paths` key, whatever values the keys hold.
C7_PresentKeysPass ==
    ( /\ old_parsed
      /\ supported(old_format)
      /\ ~check_fails(1, old_content, old_format)
      /\ ~check_fails(2, old_content, old_format)
      /\ ~check_fails(3, old_content, old_format)
      /\ old_content.doc.openapi # "absent" \/ old_content.doc.swagger # "absent"
      /\ old_content.doc.info # "absent"
      /\ old_content.doc.pathsT # "absent" ) =>
        /\ old_spec = old_content.doc
        /\ old_spec # NoDoc

endpoint_paths(changes, type) ==
    { changes[i].path : i \in { j \in 1..Len(changes) :
                                   /\ changes[j].category = "endpoint"
                                   /\ changes[j].type = type } }

\* C8: for two valid documents A and B, the endpoint-removed paths of
\* compare(A, B) are the endpoint-added paths of compare(B, A), and the
\* endpoint-added paths of compare(A, B) the endpoint-removed ones of
\* compare(B, A).
C8_RemovalAdditionDuality ==
    (finished /\ both_parsed) =>
        LET reverse == compare_specs(new_content, old_content,
                                     call_args.new_format, call_args.old_format)
        IN  /\ endpoint_paths(outcome.changes, "breaking")
                   = endpoint_paths(reverse.changes, "non_breaking")
            /\ endpoint_paths(outcome.changes, "non_breaking")
                   = endpoint_paths(reverse.changes, "breaking")

\* The decision table of the Classifier, by function and change kind.
table_severity(call) ==
    CASE call.fn \in {"classify_endpoint_removal", "classify_method_removal"} -> "breaking"
      [] call.fn \in {"classify_endpoint_addition", "classify_method_addition"} -> "non_breaking"
      [] call.fn \in {"classify_parameter_change", "classify_schema_change"} ->
            ( CASE call.change_type = "removed" -> "breaking"
                [] call.change_type = "added" /\ call.is_required -> "breaking"
                [] call.change_type = "added" /\ ~call.is_required -> "non_breaking"
                [] call.change_type = "type_changed" -> "breaking"
                [] OTHER -> call.result.type )
      [] call.fn = "classify_response_change" ->
            ( CASE call.change_type = "removed"
                       /\ call.status.text \in {"200", "201", "2XX"} -> "breaking"
                [] call.change_type = "removed"
                       /\ call.status.text \notin {"200", "201", "2XX"} -> "potentially_breaking"
                [] call.change_type = "added" -> "non_breaking"
                [] OTHER -> call.result.type )

table_category(call) ==
    CASE call.fn \in {"classify_endpoint_removal", "classify_endpoint_addition"} -> "endpoint"
      [] call.fn \in {"classify_method_removal", "classify_method_addition"} -> "method"
      [] call.fn = "classify_parameter_change" -> "parameter"
      [] call.fn = "classify_schema_change" -> "schema"
      [] call.fn = "classify_response_change" -> "response"

\* C10: every Classifier function returns one Change whose severity follows
\* the decision table: endpoint and method removed -> breaking, added ->
\* non_breaking; parameter and schema field removed -> breaking, added and
\* required -> breaking, added and optional -> non_breaking, type_changed ->
\* breaking; response removed with a 2xx status -> breaking, with any other
\* status -> potentially_breaking, response added -> non_breaking.
C10_DecisionTable ==
    last_call.fn \notin {NONE, "classify_change"} =>
        /\ last_call.result.type = table_severity(last_call)
        /\ last_call.result.category = table_category(last_call)
        /\ last_call.result.path = last_call.path

C10_Witness ==
    /\ last_call.fn = "classify_parameter_change"
    /\ last_call.change_type = "added"
    /\ last_call.is_required
    /\ last_call.result.type = "breaking"

\* the buckets of the Rules table that contain a reason identifier
buckets_of(rule_type) ==
    { b \in Severities :
        rule_type \in dict_keys( CASE b = "breaking" -> BREAKING_RULES
                                  [] b = "potentially_breaking" -> POTENTIALLY_BREAKING_RULES
                                  [] b = "non_breaking" -> NON_BREAKING_RULES ) }

KnownKinds == {"added", "removed", "type_changed"}

\* C11: classify_parameter_change and classify_schema_change called with a
\* change kind other than added, removed or type_changed return a
\* potentially_breaking Change with the generic message; classify_change
\* returns the severity of the bucket that contains the reason identifier
\* and potentially_breaking for an identifier that is in none of the three
\* buckets, so nothing unrecognized is classified non_breaking.
C11_FailSafeDefault ==
    /\ (last_call.fn = "classify_parameter_change"
           /\ last_call.change_type \notin KnownKinds) =>
           /\ last_call.result.type = "potentially_breaking"
           /\ last_call.result.message = "Parameter changed"
    /\ (last_call.fn = "classify_schema_change"
           /\ last_call.change_type \notin KnownKinds) =>
           /\ last_call.result.type = "potentially_breaking"
           /\ last_call.result.message = "Field changed"
    /\ last_call.fn = "classify_change" =>
           /\ \A b \in buckets_of(last_call.name) : last_call.severity = b
           /\ buckets_of(last_call.name) = {} =>
                  last_call.severity = "potentially_breaking"

C11_Witness ==
    /\ last_call.fn = "classify_change"
    /\ buckets_of(last_call.name) = {}
    /\ last_call.severity = "potentially_breaking"

\* the positions of the changes of a change list that are about one path
changes_on(changes, path) == { i \in 1..Len(changes) : changes[i].path = path }

\* C12: for every path present in exactly one of the two documents the
\* returned change list holds exactly one change about that path: an
\* endpoint/breaking change when the path is only in old, an
\* endpoint/non_breaking change when it is only in new; no method, parameter,
\* schema or response change is emitted for such a path.
C12_OneChangePerUnsharedPath ==
    pc = "done" =>
        /\ \A p \in dict_keys(old_spec.paths) \ dict_keys(new_spec.paths) :
               /\ Cardinality(changes_on(outcome.changes, p)) = 1
               /\ \A i \in changes_on(outcome.changes, p) :
                      /\ outcome.changes[i].category = "endpoint"
                      /\ outcome.changes[i].type = "breaking"
        /\ \A p \in dict_keys(new_spec.paths) \ dict_keys(old_spec.paths) :
               /\ Cardinality(changes_on(outcome.changes, p)) = 1
               /\ \A i \in changes_on(outcome.changes, p) :
                      /\ outcome.changes[i].category = "endpoint"
                      /\ outcome.changes[i].type = "non_breaking"

C12_Witness ==
    /\ pc = "done"
    /\ dict_keys(old_spec.paths) \ dict_keys(new_spec.paths) # {}
    /\ dict_keys(new_spec.paths) \ dict_keys(old_spec.paths) # {}
    /\ dict_keys(old_spec.paths) \cap dict_keys(new_spec.paths) # {}

\* a path item of a document, <<>> when the document has no such path
path_item_of(spec, path) ==
    IF dict_has(spec.paths, path) THEN dict_get(spec.paths, path).entries ELSE <<>>

\* the path item declares an operation for the method: one of its keys is
\* the method name in some casing and holds a record
has_operation(entries, method) ==
    \E i \in 1..Len(entries) :
        entries[i][2].rec /\ str_lower(entries[i][1]) = method

method_changes(changes, path, method) ==
    { i \in 1..Len(changes) :
        /\ changes[i].category = "method"
        /\ changes[i].path = path
        /\ changes[i].method = str_upper(method) }

\* C13: for every path present in both documents and every recognized HTTP
\* method, compared case-insensitively on the input keys: when its operation
\* is a record only in old the change list holds exactly one method change
\* for that path and method, named in upper case and breaking; when only in
\* new, exactly one and non_breaking; when on both sides, whatever the case
\* of the keys, none.
C13_MethodRemovedAdded ==
    pc = "done" =>
        \A p \in dict_keys(old_spec.paths) \cap dict_keys(new_spec.paths) :
            \A m \in HTTP_METHODS :
                LET in_old == has_operation(path_item_of(old_spec, p), m)
                    in_new == has_operation(path_item_of(new_spec, p), m)
                    mc == method_changes(outcome.changes, p, m)
                IN  /\ (in_old /\ ~in_new) =>
                           /\ Cardinality(mc) = 1
                           /\ \A i \in mc : outcome.changes[i].type = "breaking"
                    /\ (in_new /\ ~in_old) =>
                           /\ Cardinality(mc) = 1
                           /\ \A i \in mc : outcome.changes[i].type = "non_breaking"
                    /\ (in_old /\ in_new) => mc = {}

\* C14: under any interleaving of the steps of concurrent compare calls
\* every call constructs its own Differ, its diff starts from an empty
\* accumulator that no other call appends to, and the call returns (or
\* raises) exactly what the same call returns when run alone.
C14_CallsAreIsolated ==
    \A c \in DOMAIN calls :
        /\ \A d \in DOMAIN calls :
               (c # d /\ calls[c].differ # NoRef) => calls[c].differ # calls[d].differ
        /\ calls[c].pc = "diff_endpoints" => heap[calls[c].differ].changes = <<>>
        /\ calls[c].pc \in {"done", "failed"} =>
               calls[c].outcome = compare_specs(calls[c].old_content, calls[c].new_content,
                                                calls[c].args.old_format,
                                                calls[c].args.new_format)

C14_Witness ==
    /\ calls[1].pc = "done"
    /\ calls[1].outcome.changes # <<>>
    /\ calls[2].pc = "diff_operations"
    /\ heap[calls[2].differ].changes # <<>>
    /\ calls[1].differ > calls[2].differ
    /\ calls[1].outcome.changes # heap[calls[2].differ].changes

OperationCategories == {"parameter", "schema", "response"}

\* the position of a path among the keys of a document's `paths`
path_index(spec, path) == CHOOSE i \in 1..Len(spec.paths) : spec.paths[i][1] = path

\* C15 as stated: in the returned change list every method change precedes
\* every parameter, schema and response change, across all common paths.
C15_MethodsBeforeOperations ==
    pc = "done" =>
        \A i, j \in 1..Len(outcome.changes) :
            ( /\ outcome.changes[i].category = "method"
              /\ outcome.changes[j].category \in OperationCategories ) => i < j

\* C15 amended: the method and operation changes are emitted path by path,
\* the common paths in the key order of the old document; within one path
\* every method change precedes every parameter, schema and response change.
C15_MethodsBeforeOperationsPerPath ==
    pc = "done" =>
        \A i, j \in 1..Len(outcome.changes) :
            /\ ( /\ outcome.changes[i].category = "method"
                 /\ outcome.changes[j].category \in OperationCategories
                 /\ outcome.changes[i].path = outcome.changes[j].path ) => i < j
            /\ ( /\ outcome.changes[i].category # "endpoint"
                 /\ outcome.changes[j].category # "endpoint"
                 /\ i < j ) =>
                   path_index(old_spec, outcome.changes[i].path)
                       <= path_index(old_spec, outcome.changes[j].path)

C15_Witness ==
    /\ pc = "done"
    /\ \E i, j \in 1..Len(outcome.changes) :
          /\ i < j
          /\ outcome.changes[i].category \in OperationCategories
          /\ outcome.changes[j].category = "method"
          /\ outcome.changes[i].path # outcome.changes[j].path

endpoint_removed(change) == change.category = "endpoint" /\ change.type = "breaking"

endpoint_added(change) == change.category = "endpoint" /\ change.type = "non_breaking"

\* C16: in the change list compare returns, the endpoint changes come before
\* every change of another category, the endpoint-removed changes before the
\* endpoint-added ones, the removed paths in the key order of the old
\* document and the added paths in the key order of the new document; the
\* list is the Differ's accumulator in emission order, not re-sorted.
C16_EndpointsFirstInKeyOrder ==
    pc = "done" =>
        /\ outcome.changes = differ.changes
        /\ \A i, j \in 1..Len(outcome.changes) :
               LET ci == outcome.changes[i]
                   cj == outcome.changes[j]
               IN  /\ (ci.category = "endpoint" /\ cj.category # "endpoint") => i < j
                   /\ (endpoint_removed(ci) /\ endpoint_added(cj)) => i < j
                   /\ (endpoint_removed(ci) /\ endpoint_removed(cj) /\ i < j) =>
                          path_index(old_spec, ci.path) < path_index(old_spec, cj.path)
                   /\ (endpoint_added(ci) /\ endpoint_added(cj) /\ i < j) =>
                          path_index(new_spec, ci.path) < path_index(new_spec, cj.path)

C16_Witness ==
    /\ pc = "done"
    /\ Len(outcome.changes) >= 3
    /\ endpoint_removed(outcome.changes[1])
    /\ outcome.changes[1].path = "/users"
    /\ endpoint_removed(outcome.changes[2])
    /\ outcome.changes[2].path = "/posts"
    /\ endpoint_added(outcome.changes[3])

\* the operation a path item declares under a lower-case method key
declares(spec, path, method) ==
    /\ dict_has(spec.paths, path)
    /\ dict_get(spec.paths, path).rec
    /\ dict_has(dict_get(spec.paths, path).entries, method)
    /\ dict_get(dict_get(spec.paths, path).entries, method).rec

operation_of(spec, path, method) ==
    dict_get(dict_get(spec.paths, path).entries, method).op

\* the (path, method) pairs whose operation both documents declare
common_operations ==
    { pm \in (dict_keys(old_spec.paths) \cap dict_keys(new_spec.paths)) \X HTTP_METHODS :
        declares(old_spec, pm[1], pm[2]) /\ declares(new_spec, pm[1], pm[2]) }

\* the type descriptor of a parameter: the string form of its nested
\* `schema` in an OpenAPI v3 document, its flat `type` in a Swagger v2 one
type_descriptor(spec, param) ==
    IF spec.swagger # "absent"
    THEN (IF param.type = NONE THEN "" ELSE param.type)
    ELSE (IF param.schema = <<>> THEN "" ELSE py_str_dict(param.schema))

type_changed_reported(changes, path, method, name) ==
    \E i \in 1..Len(changes) :
        /\ changes[i].category = "parameter"
        /\ changes[i].path = path
        /\ changes[i].method = str_upper(method)
        /\ changes[i].field = name
        /\ changes[i].type = "breaking"
        /\ changes[i].message = get_rule_message("parameter_type_changed")

\* C17: for a parameter name present at the same location (query, path or
\* header) in the old and the new version of a common operation, a breaking
\* parameter type_changed change is emitted exactly when the two type
\* descriptors are both non-empty and differ; a Swagger v2 query parameter
\* whose `type` goes from string to integer is reported.
C17_TypeChangedIffDescriptorsDiffer ==
    pc = "done" =>
        \A pm \in common_operations :
            LET old_list == operation_of(old_spec, pm[1], pm[2]).parameters.list
                new_list == operation_of(new_spec, pm[1], pm[2]).parameters.list
            IN  \A i \in 1..Len(old_list), j \in 1..Len(new_list) :
                    ( /\ old_list[i].param_in \in {"query", "path", "header"}
                      /\ old_list[i].param_in = new_list[j].param_in
                      /\ old_list[i].name # NONE
                      /\ old_list[i].name = new_list[j].name ) =>
                        ( type_changed_reported(outcome.changes, pm[1], pm[2],
                                                old_list[i].name)
                          <=> /\ type_descriptor(old_spec, old_list[i]) # ""
                              /\ type_descriptor(new_spec, new_list[j]) # ""
                              /\ type_descriptor(old_spec, old_list[i])
                                     # type_descriptor(new_spec, new_list[j]) )

schema_changes(changes, path, method) ==
    LET about(c) == /\ c.category = "schema"
                    /\ c.path = path
                    /\ c.method = str_upper(method)
    IN  SelectSeq(changes, about)

\* the schema of the first declared content type of a requestBody
first_content_schema(body) ==
    IF ~body.key \/ body.content = <<>> THEN NoSchema ELSE body.content[1][2].schema

\* the schema of the first declared content type that carries a schema
first_carried_schema(body) ==
    LET carriers == { i \in 1..Len(body.content) : body.content[i][2].schema.present }
    IN  IF ~body.key \/ carriers = {} THEN NoSchema
        ELSE body.content[CHOOSE i \in carriers : \A j \in carriers : i <= j][2].schema

\* C18 as stated: request-body diffing uses on each side only the schema of
\* the first declared content type; when the first content type of either
\* side carries no schema, body diffing is skipped even if a later content
\* type carries one.
C18_FirstContentTypeOnly ==
    pc = "done" =>
        \A pm \in common_operations :
            LET old_schema == first_content_schema(
                                  operation_of(old_spec, pm[1], pm[2]).requestBody)
                new_schema == first_content_schema(
                                  operation_of(new_spec, pm[1], pm[2]).requestBody)
            IN  schema_changes(outcome.changes, pm[1], pm[2])
                    = IF old_schema.present /\ new_schema.present
                      THEN diff_schema(pm[1], pm[2], old_schema, new_schema)
                      ELSE <<>>

\* C18 amended: request-body diffing uses on each side only the schema of
\* the first declared content type that carries a non-empty schema and
\* ignores all other content types; it is skipped when on either side no
\* content type carries a schema.
C18_FirstSchemaCarryingContentType ==
    pc = "done" =>
        \A pm \in common_operations :
            LET old_schema == first_carried_schema(
                                  operation_of(old_spec, pm[1], pm[2]).requestBody)
                new_schema == first_carried_schema(
                                  operation_of(new_spec, pm[1], pm[2]).requestBody)
            IN  schema_changes(outcome.changes, pm[1], pm[2])
                    = IF old_schema.present /\ new_schema.present
                      THEN diff_schema(pm[1], pm[2], old_schema, new_schema)
                      ELSE <<>>

C18_Witness ==
    /\ pc = "done"
    /\ \E pm \in common_operations :
          LET old_body == operation_of(old_spec, pm[1], pm[2]).requestBody
              new_body == operation_of(new_spec, pm[1], pm[2]).requestBody
          IN  /\ new_body.key
              /\ Len(new_body.content) > 1
              /\ ~first_content_schema(new_body).present
              /\ first_content_schema(old_body).present
              /\ schema_changes(outcome.changes, pm[1], pm[2]) # <<>>

\* the kind of a schema change, read from its message
schema_change_kind(change) ==
    CASE change.message = get_rule_message("field_removed") -> 1
      [] change.message \in {get_rule_message("required_field_added"),
                             get_rule_message("optional_field_added")} -> 2
      [] change.message = get_rule_message("field_type_changed") -> 3
      [] OTHER -> 0

\* the positions of the schema changes of one kind about one property
field_changes(sc, name, kind) ==
    { i \in 1..Len(sc) : sc[i].field = name /\ schema_change_kind(sc[i]) = kind }

\* C19: when request-body diffing runs on an old and a new schema, each
\* property only in old yields exactly one schema/breaking change, each
\* property only in new exactly one schema change that is breaking iff the
\* name is in the new schema's `required` set and non_breaking otherwise,
\* each property in both a breaking type_changed change iff its two `type`
\* strings are both non-empty and differ, whatever their nested schemas
\* hold; removed changes precede added changes, which precede type_changed
\* changes.
C19_SchemaPropertyDiff ==
    pc = "done" =>
        \A pm \in common_operations :
            LET old_schema == first_carried_schema(
                                  operation_of(old_spec, pm[1], pm[2]).requestBody)
                new_schema == first_carried_schema(
                                  operation_of(new_spec, pm[1], pm[2]).requestBody)
                sc == schema_changes(outcome.changes, pm[1], pm[2])
                old_names == dict_keys(old_schema.props)
                new_names == dict_keys(new_schema.props)
            IN  (old_schema.present /\ new_schema.present) =>
                    /\ \A i \in 1..Len(sc) :
                           /\ schema_change_kind(sc[i]) \in {1, 2, 3}
                           /\ sc[i].field \in old_names \cup new_names
                    /\ \A n \in old_names \ new_names :
                           /\ Cardinality({i \in 1..Len(sc) : sc[i].field = n}) = 1
                           /\ \A i \in field_changes(sc, n, 1) : sc[i].type = "breaking"
                           /\ field_changes(sc, n, 1) # {}
                    /\ \A n \in new_names \ old_names :
                           /\ Cardinality({i \in 1..Len(sc) : sc[i].field = n}) = 1
                           /\ field_changes(sc, n, 2) # {}
                           /\ \A i \in field_changes(sc, n, 2) :
                                  sc[i].type = IF n \in new_schema.required
                                               THEN "breaking" ELSE "non_breaking"
                    /\ \A n \in old_names \cap new_names :
                           LET old_type == dict_get(old_schema.props, n).type
                               new_type == dict_get(new_schema.props, n).type
                               differs == /\ old_type # ""
                                          /\ new_type # ""
                                          /\ old_type # new_type
                           IN  /\ Cardinality({i \in 1..Len(sc) : sc[i].field = n})
                                      = IF differs THEN 1 ELSE 0
                               /\ \A i \in 1..Len(sc) :
                                      sc[i].field = n =>
                                          /\ schema_change_kind(sc[i]) = 3
                                          /\ sc[i].type = "breaking"
                    /\ \A i, j \in 1..Len(sc) :
                           i < j => schema_change_kind(sc[i]) <= schema_change_kind(sc[j])

C19_Witness ==
    /\ pc = "done"
    /\ \E pm \in common_operations :
          LET sc == schema_changes(outcome.changes, pm[1], pm[2])
          IN  /\ Len(sc) = 3
              /\ schema_change_kind(sc[1]) = 1
              /\ schema_change_kind(sc[2]) = 2
              /\ schema_change_kind(sc[3]) = 3

\* a change of the given category about one field of one operation
reported(changes, category, path, method, field, types) ==
    \E i \in 1..Len(changes) :
        /\ changes[i].category = category
        /\ changes[i].path = path
        /\ changes[i].method = str_upper(method)
        /\ changes[i].field = field
        /\ changes[i].type \in types

\* the parameter is declared by the operation at the same location and name
declares_parameter(op, param) ==
    \E i \in 1..Len(op.parameters.list) :
        /\ op.parameters.list[i].param_in = param.param_in
        /\ op.parameters.list[i].name = param.name

\* C20: for a (path, method) pair common to both documents no schema change
\* is emitted when the old operation has neither a `parameters` nor a
\* `requestBody` key, nor when either side has no request-body content or no
\* schema, even if the new operation adds a request body with required
\* properties; parameter and response diffing still run for the operation:
\* added parameters and removed and added responses are reported.
C20_BodyDiffSkipped ==
    pc = "done" =>
        \A pm \in common_operations :
            LET old_op == operation_of(old_spec, pm[1], pm[2])
                new_op == operation_of(new_spec, pm[1], pm[2])
                unshaped == ~old_op.parameters.key /\ ~old_op.requestBody.key
                no_schema == \/ ~first_carried_schema(old_op.requestBody).present
                             \/ ~first_carried_schema(new_op.requestBody).present
            IN  (unshaped \/ no_schema) =>
                    /\ schema_changes(outcome.changes, pm[1], pm[2]) = <<>>
                    /\ \A j \in 1..Len(new_op.parameters.list) :
                           LET param == new_op.parameters.list[j]
                           IN  ( /\ param.param_in \in {"query", "path", "header"}
                                 /\ param.name # NONE
                                 /\ ~declares_parameter(old_op, param) ) =>
                                   reported(outcome.changes, "parameter", pm[1], pm[2],
                                            param.name,
                                            {IF param.required THEN "breaking"
                                             ELSE "non_breaking"})
                    /\ \A k \in 1..Len(new_op.responses) :
                           (\A l \in 1..Len(old_op.responses) :
                                old_op.responses[l] # new_op.responses[k]) =>
                               reported(outcome.changes, "response", pm[1], pm[2],
                                        "Response " \o new_op.responses[k].text,
                                        {"non_breaking"})
                    /\ \A l \in 1..Len(old_op.responses) :
                           (\A k \in 1..Len(new_op.responses) :
                                old_op.responses[l] # new_op.responses[k]) =>
                               reported(outcome.changes, "response", pm[1], pm[2],
                                        "Response " \o old_op.responses[l].text,
                                        {"breaking", "potentially_breaking"})

C20_Witness ==
    /\ pc = "done"
    /\ \E pm \in common_operations :
          LET old_op == operation_of(old_spec, pm[1], pm[2])
              new_op == operation_of(new_spec, pm[1], pm[2])
          IN  /\ ~old_op.parameters.key
              /\ ~old_op.requestBody.key
              /\ first_carried_schema(new_op.requestBody).present
              /\ first_carried_schema(new_op.requestBody).required # {}
              /\ schema_changes(outcome.changes, pm[1], pm[2]) = <<>>
              /\ reported(outcome.changes, "response", pm[1], pm[2],
                          "Response 201", {"non_breaking"})

\* the entries of a path item a normalized path item must hold: for every
\* recognized method that some key names, in any casing, with a record
\* value, the lower-case method with the value of the last such key
record_methods(entries) ==
    { <<m, entries[CHOOSE i \in 1..Len(entries) :
                      /\ entries[i][2].rec
                      /\ str_lower(entries[i][1]) = m
                      /\ \A j \in 1..Len(entries) :
                             (entries[j][2].rec /\ str_lower(entries[j][1]) = m)
                                 => j <= i][2]>> :
        m \in { n \in HTTP_METHODS : has_operation(entries, n) } }

entries_of(item) == { item[i] : i \in 1..Len(item) }

\* C21: Normalizer.normalize on a document with a `swagger` or `openapi`
\* key yields, for each path, exactly the path-item keys whose lower-cased
\* name is a recognized method and whose value is a record, under the
\* lower-cased key; a method-named key whose value is not a record is
\* dropped, and of two keys differing only by case the later one wins.  A
\* document with neither key is returned unchanged.
C21_NormalizeKeepsRecordMethods ==
    (last_call.fn = "normalize" /\ ~last_call.raised) =>
        LET spec == last_call.spec
            out == last_call.normalized
        IN  IF spec.swagger = "absent" /\ spec.openapi = "absent"
            THEN /\ last_call.normalizedT = spec.pathsT
                 /\ out = spec.paths
            ELSE /\ Len(out) = Len(spec.paths)
                 /\ \A i \in 1..Len(out) :
                        /\ out[i][1] = spec.paths[i][1]
                        /\ out[i][2].rec
                        /\ entries_of(out[i][2].entries)
                               = record_methods(spec.paths[i][2].entries)
                        /\ Len(out[i][2].entries)
                               = Cardinality(record_methods(spec.paths[i][2].entries))

\* the reason identifiers whose message the Classifier looks up
LookedUpIds ==
    {"endpoint_removed", "endpoint_added", "method_removed", "method_added",
     "parameter_removed", "required_parameter_added", "optional_parameter_added",
     "parameter_type_changed", "field_removed", "required_field_added",
     "optional_field_added", "field_type_changed", "success_response_removed",
     "non_2xx_response_removed"}

\* the reason identifier of a Classifier call, NONE when the call is of a
\* kind for which no message is looked up
reason_of(call) ==
    CASE call.fn = "classify_endpoint_removal" -> "endpoint_removed"
      [] call.fn = "classify_endpoint_addition" -> "endpoint_added"
      [] call.fn = "classify_method_removal" -> "method_removed"
      [] call.fn = "classify_method_addition" -> "method_added"
      [] call.fn = "classify_parameter_change" ->
            ( CASE call.change_type = "removed" -> "parameter_removed"
                [] call.change_type = "added" /\ call.is_required -> "required_parameter_added"
                [] call.change_type = "added" /\ ~call.is_required -> "optional_parameter_added"
                [] call.change_type = "type_changed" -> "parameter_type_changed"
                [] OTHER -> NONE )
      [] call.fn = "classify_schema_change" ->
            ( CASE call.change_type = "removed" -> "field_removed"
                [] call.change_type = "added" /\ call.is_required -> "required_field_added"
                [] call.change_type = "added" /\ ~call.is_required -> "optional_field_added"
                [] call.change_type = "type_changed" -> "field_type_changed"
                [] OTHER -> NONE )
      [] call.fn = "classify_response_change" ->
            ( CASE call.change_type = "removed"
                       /\ call.status.text \in {"200", "201", "2XX"}
                       -> "success_response_removed"
                [] call.change_type = "removed"
                       /\ call.status.text \notin {"200", "201", "2XX"}
                       -> "non_2xx_response_removed"
                [] OTHER -> NONE )
      [] OTHER -> NONE

\* C22: the severity hard-coded in every Change the Classifier builds agrees
\* with the Rules table: for each reason identifier whose message the
\* Classifier looks up, the Change's type is classify_change of that
\* identifier and its message get_rule_message of it; the three buckets are
\* pairwise disjoint, so the identifier has one severity.
C22_ClassifierAgreesWithRules ==
    /\ dict_keys(BREAKING_RULES) \cap dict_keys(POTENTIALLY_BREAKING_RULES) = {}
    /\ dict_keys(BREAKING_RULES) \cap dict_keys(NON_BREAKING_RULES) = {}
    /\ dict_keys(POTENTIALLY_BREAKING_RULES) \cap dict_keys(NON_BREAKING_RULES) = {}
    /\ \A id \in LookedUpIds : Cardinality(buckets_of(id)) = 1
    /\ (last_call.fn \notin {NONE, "classify_change"} /\ reason_of(last_call) # NONE) =>
           /\ reason_of(last_call) \in LookedUpIds
           /\ last_call.result.type = classify_change(reason_of(last_call))
           /\ last_call.result.message = get_rule_message(reason_of(last_call))
           /\ last_call.result.type \in buckets_of(reason_of(last_call))

C22_Witness ==
    /\ last_call.fn = "classify_response_change"
    /\ last_call.change_type = "removed"
    /\ last_call.status.text = "404"
    /\ last_call.result.type = "potentially_breaking"
    /\ last_call.result.message = get_rule_message("non_2xx_response_removed")

\* the parameter an operation declares at the location and name of `param`
declared_parameter(op, param) ==
    op.parameters.list[CHOOSE i \in 1..Len(op.parameters.list) :
                           /\ op.parameters.list[i].param_in = param.param_in
                           /\ op.parameters.list[i].name = param.name]

\* the operation with the `required` flag of every parameter that old_op
\* declares too set back to the flag it has in old_op
with_required_of(op, old_op) ==
    [op EXCEPT !.parameters.list =
        [k \in 1..Len(op.parameters.list) |->
            IF declares_parameter(old_op, op.parameters.list[k])
            THEN [op.parameters.list[k] EXCEPT
                     !.required = declared_parameter(old_op,
                                                     op.parameters.list[k]).required]
            ELSE op.parameters.list[k]]]

\* the new document before any edit of the `required` flags of the
\* parameters that the old document declares too
without_required_edits(new, old) ==
    [new EXCEPT !.paths =
        [i \in 1..Len(new.paths) |->
            <<new.paths[i][1],
              [new.paths[i][2] EXCEPT !.entries =
                  [j \in 1..Len(new.paths[i][2].entries) |->
                      LET e == new.paths[i][2].entries[j]
                      IN  IF e[2].rec /\ declares(old, new.paths[i][1], e[1])
                          THEN <<e[1], [e[2] EXCEPT !.op =
                                   with_required_of(@, operation_of(old, new.paths[i][1],
                                                                    e[1]))]>>
                          ELSE e]]>>]]

\* a parameter of the new operation that the old operation declares with
\* the other `required` flag and nothing else changed
required_flipped(old_op, param) ==
    /\ param.param_in \in {"query", "path", "header"}
    /\ param.name # NONE
    /\ declares_parameter(old_op, param)
    /\ declared_parameter(old_op, param) # param
    /\ [declared_parameter(old_op, param) EXCEPT !.required = param.required] = param

\* C23: for a parameter present at the same location in the old and the new
\* version of a common operation, a change of its `required` flag alone
\* produces no change record about it, and the outcome of the comparison is
\* the outcome for the new document without the edits of `required` flags.
C23_RequiredFlagEditIgnored ==
    (finished /\ both_parsed) =>
        /\ outcome = compare_specs(old_content,
                                   text_of(without_required_edits(new_spec, old_spec)),
                                   call_args.old_format, call_args.new_format)
        /\ pc = "done" =>
               \A pm \in common_operations :
                   LET old_op == operation_of(old_spec, pm[1], pm[2])
                       new_op == operation_of(new_spec, pm[1], pm[2])
                   IN  \A k \in 1..Len(new_op.parameters.list) :
                           required_flipped(old_op, new_op.parameters.list[k]) =>
                               ~reported(outcome.changes, "parameter", pm[1], pm[2],
                                         new_op.parameters.list[k].name, Severities)

C23_Witness ==
    /\ pc = "done"
    /\ \E pm \in common_operations :
          LET old_op == operation_of(old_spec, pm[1], pm[2])
              new_op == operation_of(new_spec, pm[1], pm[2])
          IN  \E k \in 1..Len(new_op.parameters.list) :
                  /\ required_flipped(old_op, new_op.parameters.list[k])
                  /\ new_op.parameters.list[k].required
    /\ outcome.kind = "result"
    /\ outcome.changes = <<>>

====
